---- MODULE Spec2Model ----
(***************************************************************************)
(* Model of the resolution engine of datasheet_downloader/downloader.py:   *)
(* the PDF classifier (is_likely_datasheet), the retrying downloader       *)
(* (download_direct_pdf) and the search cascade (search_by_part_number,    *)
(* _try_google_search, _try_direct_manufacturer_url).                      *)
(*                                                                         *)
(* Text is modelled as a sequence of words, a part number as a sequence of *)
(* one-character strings; "term in text" is contiguous-subsequence search. *)
(***************************************************************************)
EXTENDS Integers, Sequences, FiniteSets, TLC

VARIABLES
    probe,      \* function harnesses: the input handed to the function under test
    verdict,    \* function harnesses: what it returned, or NoVerdict
    fitz,       \* TRUE iff the PyMuPDF import succeeded (module global fitz)
    retry_count,\* self.retry_count
    fs,         \* the download directory: file name -> file content
    dl,         \* the running download_direct_pdf call (its frame)
    succeeded,  \* download harness: paths a call returned success for, not removed since
    page,       \* TRUE iff the browser session is started (self.page is set)
    sr,         \* the running search_by_part_number call (its frame)
    gd,         \* the running get_datasheet call (its frame)
    batch       \* the running batch loop (cli.main or process_csv_file)

vars == <<probe, verdict, fitz, retry_count, fs, dl, succeeded, page, sr, gd, batch>>

Min(a, b) == IF a < b THEN a ELSE b

(***************************************************************************)
(* Text helpers: str.lower() and the substring test "term in text".        *)
(***************************************************************************)
LowerWord(w) ==
    CASE w = "Datasheet" -> "datasheet"
      [] w = "Data"      -> "data"
      [] w = "Sheet"     -> "sheet"
      [] w = "Features"  -> "features"
      [] w = "User"      -> "user"
      [] w = "Guide"     -> "guide"
      [] w = "Product"   -> "product"
      [] w = "Catalog"   -> "catalog"
      [] w = "Absolute"  -> "absolute"
      [] w = "Maximum"   -> "maximum"
      [] w = "Ratings"   -> "ratings"
      [] OTHER           -> w

Lower(text) == [i \in DOMAIN text |-> LowerWord(text[i])]

\* Python's "term in text" on lower-cased text
Contains(text, term) ==
    \E i \in 0..(Len(text) - Len(term)) : SubSeq(text, i + 1, i + Len(term)) = term

(***************************************************************************)
(* is_likely_datasheet: thresholds and term lists.                         *)
(***************************************************************************)
MinSizeKB == 50
MaxSizeKB == 20000
BytesPerKB == 1024
MinPages == 3
MaxPages == 200
ScanPages == 5
TypicalMinPages == 5
TypicalMaxPages == 100

exclusionary_terms ==
    << <<"user", "guide">>, <<"user", "manual">>, <<"catalog">>,
       <<"product", "catalog">>, <<"selection", "guide">>,
       <<"reference", "guide">>, <<"reference", "manual">>,
       <<"application", "note">>, <<"guide", "d'utilisation">>,
       <<"handbuch">>, <<"instruction", "manual">>,
       <<"programmer's", "guide">>, <<"programming", "guide">> >>

datasheet_terms ==
    << <<"datasheet">>, <<"technical", "data">>, <<"specifications">>,
       <<"electrical", "characteristics">>, <<"block", "diagram">>,
       <<"typical", "application">>, <<"pin", "configuration">>,
       <<"features">>, <<"absolute", "maximum", "ratings">>,
       <<"recommended", "operating", "conditions">> >>

NoTitle == <<"<no title>">>

\* str(e) of the exception fitz raises: on fitz.open, on page.get_text
ErrorMessage(err) ==
    IF err = "open" THEN "cannot open broken document" ELSE "page text extraction failed"

\* the except clause: (False, f"Error analyzing PDF: {str(e)}")
ErrorVerdict(err) ==
    [is_datasheet |-> FALSE, reason |-> <<"Error analyzing PDF", ErrorMessage(err)>>,
     opened |-> TRUE]
NoProbe == [exists |-> FALSE]
NoVerdict == [is_datasheet |-> FALSE, reason |-> <<"<none>">>, opened |-> FALSE]

\* A parsed PDF: npages = len(pdf); text = the pages that carry text (all
\* others are blank); title = metadata title or NoTitle; err = where fitz raises.
PageText(pdf, i) == IF i \in DOMAIN pdf.text THEN pdf.text[i] ELSE <<>>

Verdict(ok, reason, opened) ==
    [is_datasheet |-> ok, reason |-> reason, opened |-> opened]

\* index of the first exclusionary term found in lower-cased text, 0 if none
FirstExclusion(text) ==
    LET hits == {k \in DOMAIN exclusionary_terms : Contains(Lower(text), exclusionary_terms[k])}
    IN  IF hits = {} THEN 0 ELSE CHOOSE k \in hits : \A j \in hits : k <= j

\* the first scanned page (1-based) holding an exclusionary term, 0 if none
FirstExclusionPage(pdf, upto) ==
    LET hits == {i \in 1..upto : FirstExclusion(PageText(pdf, i)) # 0}
    IN  IF hits = {} THEN 0 ELSE CHOOSE i \in hits : \A j \in hits : i <= j

term_found(pdf) ==
    \E k \in DOMAIN datasheet_terms : Contains(Lower(PageText(pdf, 1)), datasheet_terms[k])

HasTitle(pdf) == pdf.title # NoTitle /\ pdf.title # <<>>

title_is_datasheet(pdf) ==
    /\ HasTitle(pdf)
    /\ \/ Contains(Lower(pdf.title), <<"datasheet">>)
       \/ Contains(Lower(pdf.title), <<"data", "sheet">>)

TitleExclusion(pdf) == IF HasTitle(pdf) THEN FirstExclusion(pdf.title) ELSE 0

\* mutant: without an inclusion term only a typical page count is accepted
FinalVerdict_Strict(pdf) ==
    IF term_found(pdf) \/ title_is_datasheet(pdf)
    THEN Verdict(TRUE, <<"Datasheet identified">>, TRUE)
    ELSE IF TypicalMinPages <= pdf.npages /\ pdf.npages <= TypicalMaxPages
    THEN Verdict(TRUE, <<"Likely datasheet based on format">>, TRUE)
    ELSE Verdict(FALSE, <<"Potential datasheet">>, TRUE)

\* the last three returns of is_likely_datasheet
FinalVerdict(pdf) ==
    IF term_found(pdf) \/ title_is_datasheet(pdf)
    THEN Verdict(TRUE, <<"Datasheet identified">>, TRUE)
    ELSE IF TypicalMinPages <= pdf.npages /\ pdf.npages <= TypicalMaxPages
    THEN Verdict(TRUE, <<"Likely datasheet based on format">>, TRUE)
    ELSE Verdict(TRUE, <<"Potential datasheet">>, TRUE)

\* mutant: the inclusion terms are consulted before the exclusion scan
ContentVerdict_InclusionFirst(pdf) ==
    IF pdf.npages < MinPages THEN Verdict(FALSE, <<"Too few pages">>, TRUE)
    ELSE IF pdf.npages > MaxPages THEN Verdict(FALSE, <<"Too many pages">>, TRUE)
    ELSE IF term_found(pdf) THEN Verdict(TRUE, <<"Datasheet identified">>, TRUE)
    ELSE LET p == FirstExclusionPage(pdf, Min(ScanPages, pdf.npages))
         IN  IF p # 0
             THEN Verdict(FALSE, <<"Document appears to be a">>
                                   \o exclusionary_terms[FirstExclusion(PageText(pdf, p))], TRUE)
             ELSE IF TitleExclusion(pdf) # 0
             THEN Verdict(FALSE, <<"Metadata title indicates this is a">>
                                   \o exclusionary_terms[TitleExclusion(pdf)], TRUE)
             ELSE FinalVerdict(pdf)

\* mutant: the decision order of the prose (inclusion accept before the title)
ContentVerdict_TitleLast(pdf) ==
    IF pdf.npages < MinPages THEN Verdict(FALSE, <<"Too few pages">>, TRUE)
    ELSE IF pdf.npages > MaxPages THEN Verdict(FALSE, <<"Too many pages">>, TRUE)
    ELSE LET p == FirstExclusionPage(pdf, Min(ScanPages, pdf.npages))
         IN  IF p # 0
             THEN Verdict(FALSE, <<"Document appears to be a">>
                                   \o exclusionary_terms[FirstExclusion(PageText(pdf, p))], TRUE)
             ELSE IF term_found(pdf)
             THEN Verdict(TRUE, <<"Datasheet identified">>, TRUE)
             ELSE IF TitleExclusion(pdf) # 0
             THEN Verdict(FALSE, <<"Metadata title indicates this is a">>
                                   \o exclusionary_terms[TitleExclusion(pdf)], TRUE)
             ELSE FinalVerdict(pdf)

\* is_likely_datasheet from "page_count = len(pdf)" on (the PDF is open)
ContentVerdict(pdf) ==
    IF pdf.npages < MinPages THEN Verdict(FALSE, <<"Too few pages">>, TRUE)
    ELSE IF pdf.npages > MaxPages THEN Verdict(FALSE, <<"Too many pages">>, TRUE)
    ELSE LET p == FirstExclusionPage(pdf, Min(ScanPages, pdf.npages))
         IN  IF /\ pdf.err = "text"
                /\ pdf.errpage <= Min(ScanPages, pdf.npages)
                /\ (p = 0 \/ pdf.errpage <= p)
             THEN \* get_text raised before any exclusionary term was seen
                  ErrorVerdict("text")
             ELSE IF p # 0
             THEN Verdict(FALSE, <<"Document appears to be a">>
                                   \o exclusionary_terms[FirstExclusion(PageText(pdf, p))], TRUE)
             ELSE IF TitleExclusion(pdf) # 0
             THEN Verdict(FALSE, <<"Metadata title indicates this is a">>
                                   \o exclusionary_terms[TitleExclusion(pdf)], TRUE)
             ELSE FinalVerdict(pdf)

\* mutant: fitz.open runs before the size thresholds are looked at
is_likely_datasheet_OpenFirst(exists, size, fitzAvail, pdf) ==
    IF ~exists THEN Verdict(FALSE, <<"File does not exist">>, FALSE)
    ELSE IF fitzAvail /\ pdf.err = "open" THEN ErrorVerdict("open")
    ELSE IF size < MinSizeKB * BytesPerKB THEN Verdict(FALSE, <<"File too small">>, fitzAvail)
    ELSE IF size > MaxSizeKB * BytesPerKB THEN Verdict(FALSE, <<"File too large">>, fitzAvail)
    ELSE IF ~fitzAvail THEN Verdict(TRUE, <<"Accepted based on file size">>, FALSE)
    ELSE ContentVerdict(pdf)

\* mutant: no "fitz is None" branch, the content rules always apply
is_likely_datasheet_NoFallback(exists, size, fitzAvail, pdf) ==
    IF ~exists THEN Verdict(FALSE, <<"File does not exist">>, FALSE)
    ELSE IF size < MinSizeKB * BytesPerKB THEN Verdict(FALSE, <<"File too small">>, FALSE)
    ELSE IF size > MaxSizeKB * BytesPerKB THEN Verdict(FALSE, <<"File too large">>, FALSE)
    ELSE IF pdf.err = "open" THEN ErrorVerdict("open")
    ELSE ContentVerdict(pdf)

\* mutant: a file fitz cannot open is let through (fail-open)
is_likely_datasheet_FailOpen(exists, size, fitzAvail, pdf) ==
    IF ~exists THEN Verdict(FALSE, <<"File does not exist">>, FALSE)
    ELSE IF size < MinSizeKB * BytesPerKB THEN Verdict(FALSE, <<"File too small">>, FALSE)
    ELSE IF size > MaxSizeKB * BytesPerKB THEN Verdict(FALSE, <<"File too large">>, FALSE)
    ELSE IF ~fitzAvail THEN Verdict(TRUE, <<"Accepted based on file size">>, FALSE)
    ELSE IF pdf.err = "open" THEN Verdict(TRUE, <<"Potential datasheet">>, TRUE)
    ELSE ContentVerdict(pdf)

\* mutant: the size thresholds themselves are rejected
is_likely_datasheet_Inclusive(exists, size, fitzAvail, pdf) ==
    IF ~exists THEN Verdict(FALSE, <<"File does not exist">>, FALSE)
    ELSE IF size <= MinSizeKB * BytesPerKB THEN Verdict(FALSE, <<"File too small">>, FALSE)
    ELSE IF size >= MaxSizeKB * BytesPerKB THEN Verdict(FALSE, <<"File too large">>, FALSE)
    ELSE IF ~fitzAvail THEN Verdict(TRUE, <<"Accepted based on file size">>, FALSE)
    ELSE IF pdf.err = "open" THEN ErrorVerdict("open")
    ELSE ContentVerdict(pdf)

is_likely_datasheet(exists, size, fitzAvail, pdf) ==
    IF ~exists THEN Verdict(FALSE, <<"File does not exist">>, FALSE)
    ELSE IF size < MinSizeKB * BytesPerKB THEN Verdict(FALSE, <<"File too small">>, FALSE)
    ELSE IF size > MaxSizeKB * BytesPerKB THEN Verdict(FALSE, <<"File too large">>, FALSE)
    ELSE IF ~fitzAvail THEN Verdict(TRUE, <<"Accepted based on file size">>, FALSE)
    ELSE IF pdf.err = "open" THEN ErrorVerdict("open")
    ELSE ContentVerdict(pdf)

(***************************************************************************)
(* Names, paths and the web.  A name is a sequence of characters, a URL    *)
(* and a header value a sequence of tokens.                                *)
(***************************************************************************)
UpperChars == <<"A","B","C","D","E","F","G","H","I","J","K","L","M",
                "N","O","P","Q","R","S","T","U","V","W","X","Y","Z">>
LowerChars == <<"a","b","c","d","e","f","g","h","i","j","k","l","m",
                "n","o","p","q","r","s","t","u","v","w","x","y","z">>
Digits == {"0","1","2","3","4","5","6","7","8","9"}

Range(f) == {f[i] : i \in DOMAIN f}

LowerChar(c) ==
    IF c \in Range(UpperChars)
    THEN LowerChars[CHOOSE i \in DOMAIN UpperChars : UpperChars[i] = c]
    ELSE c

LowerStr(str) == [i \in DOMAIN str |-> LowerChar(str[i])]

\* c.isalnum()
IsAlnum(c) == c \in Range(UpperChars) \cup Range(LowerChars) \cup Digits

PdfExt == <<".", "p", "d", "f">>

EndsWith(str, suffix) ==
    /\ Len(str) >= Len(suffix)
    /\ SubSeq(str, Len(str) - Len(suffix) + 1, Len(str)) = suffix

\* "".join(c if c.isalnum() or c in "-_." else "_" for c in part_number)
Sanitize(name) ==
    [i \in DOMAIN name |-> IF IsAlnum(name[i]) \/ name[i] \in {"-", "_", "."}
                           THEN name[i] ELSE "_"]

\* mutant: ".pdf" is appended to every name
OutputPath_AlwaysAppend(name) == Sanitize(name) \o PdfExt

\* the file name under download_dir that download_direct_pdf writes
OutputPath(name) ==
    LET clean == Sanitize(name)
    IN  IF EndsWith(LowerStr(clean), PdfExt) THEN clean ELSE clean \o PdfExt

None == <<>>

\* the documents the web serves
DocGood ==
    [size |-> 819200,
     pdf  |-> [npages |-> 12,
               text |-> (1 :> <<"LM358", "Absolute", "Maximum", "Ratings">>),
               title |-> NoTitle, err |-> "none", errpage |-> 0]]
DocCatalog ==
    [size |-> 1048576,
     pdf  |-> [npages |-> 50,
               text |-> (1 :> <<"Product", "Catalog">>),
               title |-> NoTitle, err |-> "none", errpage |-> 0]]

\* a URL: scheme, host tokens, "/", path tokens
UrlTi == <<"https://", "www.", "ti.com", "/", "lit/ds/lm358", ".pdf">>
UrlOther == <<"https://", "example.org", "/", "files/lm358", ".pdf">>
UrlCache == <<"https://", "webcache", ".", "googleusercontent", ".com", "/", "lm358", ".pdf">>

\* what each URL's server sends as the body
Web(url) == IF Contains(url, <<"ti.com">>) THEN DocGood ELSE DocCatalog

\* a family of links on one mirror host: .../a.pdf, .../b.pdf, ...
MirrorHost == "mirror.example.org"
UrlN(i) == <<"https://", MirrorHost, "/", LowerChars[i], ".pdf">>
IsMirror(url) == Len(url) = 5 /\ url[2] = MirrorHost
MirrorIndex(url) == CHOOSE i \in DOMAIN LowerChars : LowerChars[i] = url[4]

\* how a server may answer a GET: the mirror answers every odd link with an
\* HTML page and every even link with the whole body; any other server may
\* answer in every way
Outcomes(url) ==
    IF url = None
    THEN {"error"}      \* requests.get(None) raises MissingSchema
    ELSE IF IsMirror(url)
    THEN (IF MirrorIndex(url) % 2 = 1 THEN {"badtype"} ELSE {"ok"})
    ELSE {"error", "badtype", "broken", "ok"}

\* a response body is streamed in NumChunks chunks (iter_content)
NumChunks == 2

\* a file on disk: the URL its bytes came from and how many chunks were written
File(url, written) == [url |-> url, written |-> written]
IsComplete(file) == file.written = NumChunks
FileSize(file) == (Web(file.url).size * file.written) \div NumChunks

Exists(path) == path \in DOMAIN fs
WriteFile(path, file) ==
    [p \in DOMAIN fs \cup {path} |-> IF p = path THEN file ELSE fs[p]]
RemoveFile(path) == [p \in DOMAIN fs \ {path} |-> fs[p]]

(***************************************************************************)
(* download_direct_pdf                                                     *)
(***************************************************************************)
DefaultRetryCount == 3

ContentTypes == {<<"Application/", "PDF">>, <<"application/octet-stream">>,
                 <<"text/html; charset=utf-8">>, <<>>}
TransportErrors == {"Timeout", "ConnectionError", "HTTPError"}
BodyError == "ChunkedEncodingError"

\* "pdf" in content_type or "application/octet-stream" in content_type
ContentTypeOk(content_type) ==
    \/ Contains(Lower(content_type), <<"pdf">>)
    \/ Contains(Lower(content_type), <<"application/octet-stream">>)

Result(success, message, filepath, download_url) ==
    [success |-> success, message |-> message,
     filepath |-> filepath, download_url |-> download_url]

IdleDl == [pc |-> "idle"]
IdleSr == [pc |-> "idle"]
IdleGd == [pc |-> "idle"]
IdleBatch == [pc |-> "idle"]

Frame(pc, url, path, attempt, trace, ctype, result, prior) ==
    [pc |-> pc, url |-> url, path |-> path, attempt |-> attempt,
     trace |-> trace, ctype |-> ctype, result |-> result, prior |-> prior]

NoResult == Result(FALSE, <<"<running>">>, None, None)
NoResponse == <<"<no response>">>

\* mutant: no os.path.exists short-circuit
BeginDownload_NoExistsCheck(url, part_number, prior) ==
    Frame("get", url, OutputPath(part_number), 0, <<>>, NoResponse, NoResult, prior)

\* download_direct_pdf up to the first loop iteration
BeginDownload(url, part_number, prior) ==
    LET path == OutputPath(part_number)
    IN  IF Exists(path)
        THEN Frame("done", url, path, 0, <<>>, NoResponse,
                   Result(TRUE, <<"File already exists">>, path, url), prior)
        ELSE IF retry_count = 0
        THEN Frame("done", url, path, 0, <<>>, NoResponse,
                   Result(FALSE, <<"Failed to download with unknown error">>, None, None), prior)
        ELSE Frame("get", url, path, 0, <<>>, NoResponse, NoResult, prior)

\* mutant: the handler sleeps after the last attempt too
AfterError_AlwaysSleep(e) ==
    [dl EXCEPT !.pc = "sleep", !.ctype = NoResponse, !.trace = Append(@, <<"get", e>>)]

\* the except handler of one attempt that raised RequestException e
AfterError(e) ==
    IF dl.attempt < retry_count - 1
    THEN [dl EXCEPT !.pc = "sleep", !.ctype = NoResponse,
                    !.trace = Append(@, <<"get", e>>)]
    ELSE [dl EXCEPT !.pc = "done", !.ctype = NoResponse,
                    !.trace = Append(@, <<"get", e>>),
                    !.result = Result(FALSE, <<"Failed to download after", retry_count,
                                               "attempts", e>>, None, None)]

\* mutant: a wrong content type is retried like a transport error
AfterBadType_Retried(content_type) ==
    [AfterError("NotAPdf") EXCEPT !.ctype = content_type]

\* the "Not a PDF file" return
AfterBadType(content_type) ==
    [dl EXCEPT !.pc = "done", !.ctype = content_type,
               !.trace = Append(@, <<"get", "badtype">>),
               !.result = Result(FALSE, <<"Not a PDF file">> \o Lower(content_type), None, None)]

\* one iteration of "for attempt in range(self.retry_count)": the GET raises
DlGetError ==
    /\ dl.pc = "get"
    /\ "error" \in Outcomes(dl.url)
    /\ \E e \in TransportErrors : dl' = AfterError(e)
    /\ UNCHANGED fs

\* ... the GET answers 2xx with a content type that is not a PDF's
DlGetBadType ==
    /\ dl.pc = "get"
    /\ "badtype" \in Outcomes(dl.url)
    /\ \E ct \in ContentTypes :
          /\ ~ContentTypeOk(ct)
          /\ dl' = AfterBadType(ct)
    /\ UNCHANGED fs

\* ... the body starts streaming into open(output_path, "wb") and the
\* connection breaks after k chunks
DlGetBroken ==
    /\ dl.pc = "get"
    /\ "broken" \in Outcomes(dl.url)
    /\ \E ct \in ContentTypes, k \in 0..(NumChunks - 1) :
          /\ ContentTypeOk(ct)
          /\ fs' = WriteFile(dl.path, File(dl.url, k))
          /\ dl' = [AfterError(BodyError) EXCEPT !.ctype = ct]

\* mutant: success is returned with the last chunk of the body unwritten
DlGetOk_Truncating ==
    /\ dl.pc = "get"
    /\ "ok" \in Outcomes(dl.url)
    /\ \E ct \in ContentTypes :
          /\ ContentTypeOk(ct)
          /\ fs' = WriteFile(dl.path, File(dl.url, NumChunks - 1))
          /\ dl' = [dl EXCEPT !.pc = "done", !.ctype = ct,
                              !.trace = Append(@, <<"get", "ok">>),
                              !.result = Result(TRUE, <<"Successfully downloaded">>,
                                                dl.path, dl.url)]

\* ... the whole body is written
DlGetOk ==
    /\ dl.pc = "get"
    /\ "ok" \in Outcomes(dl.url)
    /\ \E ct \in ContentTypes :
          /\ ContentTypeOk(ct)
          /\ fs' = WriteFile(dl.path, File(dl.url, NumChunks))
          /\ dl' = [dl EXCEPT !.pc = "done", !.ctype = ct,
                              !.trace = Append(@, <<"get", "ok">>),
                              !.result = Result(TRUE, <<"Successfully downloaded">>,
                                                dl.path, dl.url)]

\* time.sleep((2**attempt) + random.uniform(0, 1)), then the next iteration,
\* or the return after the loop when there is none
DlSleep ==
    /\ dl.pc = "sleep"
    /\ dl' = IF dl.attempt + 1 < retry_count
             THEN [dl EXCEPT !.pc = "get", !.attempt = @ + 1,
                             !.trace = Append(@, <<"sleep", 2 ^ dl.attempt>>)]
             ELSE [dl EXCEPT !.pc = "done", !.attempt = @ + 1,
                             !.trace = Append(@, <<"sleep", 2 ^ dl.attempt>>),
                             !.result = Result(FALSE, <<"Failed to download with unknown error">>,
                                               None, None)]
    /\ UNCHANGED fs

DlStep ==
    /\ DlGetError \/ DlGetBadType \/ DlGetBroken \/ DlGetOk \/ DlSleep
    /\ UNCHANGED <<probe, verdict, fitz, retry_count, succeeded, page, sr, gd, batch>>

(***************************************************************************)
(* Download harness: a caller that issues download_direct_pdf calls one    *)
(* after another and may delete files in between.                          *)
(***************************************************************************)
DestNames == {<<"L", "M", "3">>, <<"a", "/", "b">>, <<"a", "_", "b">>}
CallUrls == {UrlTi, UrlOther}

InitDownload ==
    /\ probe = NoProbe
    /\ verdict = NoVerdict
    /\ fitz = TRUE
    /\ retry_count \in 0..DefaultRetryCount
    /\ fs = <<>>
    /\ dl = IdleDl
    /\ succeeded = {}
    /\ gd = IdleGd
    /\ batch = IdleBatch
    /\ page = FALSE
    /\ sr = IdleSr

CallDownload ==
    /\ dl.pc = "idle"
    /\ \E url \in CallUrls, name \in DestNames :
          dl' = BeginDownload(url, name, OutputPath(name) \in succeeded)
    /\ UNCHANGED <<probe, verdict, fitz, retry_count, fs, succeeded, page, sr, gd, batch>>

ReturnDownload ==
    /\ dl.pc = "done"
    /\ dl' = IdleDl
    /\ succeeded' = IF dl.result.success THEN succeeded \cup {dl.path} ELSE succeeded
    /\ UNCHANGED <<probe, verdict, fitz, retry_count, fs, page, sr, gd, batch>>

\* somebody deletes a file of the download directory between two calls
UserRemove ==
    /\ dl.pc = "idle"
    /\ \E path \in DOMAIN fs :
          /\ fs' = RemoveFile(path)
          /\ succeeded' = succeeded \ {path}
    /\ UNCHANGED <<probe, verdict, fitz, retry_count, dl, page, sr, gd, batch>>

NextDownload == CallDownload \/ DlStep \/ ReturnDownload \/ UserRemove

SpecDownload == InitDownload /\ [][NextDownload]_vars

(***************************************************************************)
(* File-name harness: the naming of download_direct_pdf applied to names   *)
(* of up to MaxNameLen characters, with and without an extension.          *)
(***************************************************************************)
NameChars == {"a", "Z", "7", "-", "_", ".", "/", " "}

MaxNameLen == 2

NameStems == UNION {[1..n -> NameChars] : n \in 0..MaxNameLen}
NameSuffixes == {<<>>, PdfExt, <<".", "P", "D", "F">>, <<".", "p", "d", "f", "x">>}
NameInputs == {stem \o suffix : stem \in NameStems, suffix \in NameSuffixes}

InitName ==
    /\ probe \in [part_number : NameInputs]
    /\ verdict = NoVerdict
    /\ fitz = TRUE
    /\ retry_count = DefaultRetryCount
    /\ fs = <<>>
    /\ dl = IdleDl
    /\ succeeded = {}
    /\ gd = IdleGd
    /\ batch = IdleBatch
    /\ page = FALSE
    /\ sr = IdleSr

Name ==
    /\ verdict = NoVerdict
    /\ verdict' = [filename |-> OutputPath(probe.part_number)]
    /\ UNCHANGED <<probe, fitz, retry_count, fs, dl, succeeded, page, sr, gd, batch>>

NextName == Name

SpecName == InitName /\ [][NextName]_vars

(***************************************************************************)
(* Classifier harness: is_likely_datasheet applied to bounded inputs.      *)
(***************************************************************************)
ProbeSizes == {0, 51199, 51200, 819200, 20480000, 20480001}
ProbePageCounts == {2, 3, 4, 6, 101, 200, 201}
ProbeExclusionPages == {0, 1, 2, 5, 6}
ProbeExclusionTexts == {<<"User", "Guide">>, <<"Product", "Catalog">>}
ProbeInclusionTexts == {<<>>, <<"Datasheet", "Features">>, <<"absolute", "maximum", "ratings">>}
ProbeTitles == {NoTitle, <<>>, <<"LM358">>, <<"LM358", "Data", "Sheet">>,
                <<"Datasheet", "Catalog">>, <<"lm358", "user", "guide">>}
ProbeErrors == {<<"none", 0>>, <<"open", 0>>, <<"text", 1>>, <<"text", 2>>}

\* a PDF of n pages: page 1 = filler, the inclusion text and (when e = 1) the
\* exclusion text; page e > 1 = filler and the exclusion text
MakePdf(n, incl, e, excl, title, err) ==
    [npages |-> n,
     text   |-> [i \in {j \in {1, e} : 1 <= j /\ j <= n} |->
                    <<"lorem">> \o (IF i = 1 THEN incl ELSE <<>>)
                                \o (IF i = e THEN excl ELSE <<>>)],
     title  |-> title,
     err    |-> err[1],
     errpage |-> err[2]]

ProbePdfs ==
    {MakePdf(n, incl, 0, <<>>, title, err) :
        n \in ProbePageCounts, incl \in ProbeInclusionTexts,
        title \in ProbeTitles, err \in ProbeErrors}
    \cup
    {MakePdf(x[1], x[2], x[3], x[4], x[5], <<"none", 0>>) :
        x \in ProbePageCounts \X ProbeInclusionTexts \X (ProbeExclusionPages \ {0})
               \X ProbeExclusionTexts \X ProbeTitles}
    \cup
    {MakePdf(10, <<"Datasheet", "Features">>, 2, <<"User", "Guide">>, NoTitle, err) :
        err \in ProbeErrors}

ProbeInputs ==
    [exists : {TRUE}, size : ProbeSizes, pdf : ProbePdfs]
    \cup [exists : {FALSE}, size : {0}, pdf : {MakePdf(10, <<>>, 0, <<>>, NoTitle, <<"none", 0>>)}]

InitClassify ==
    /\ probe \in ProbeInputs
    /\ verdict = NoVerdict
    /\ fitz \in BOOLEAN
    /\ retry_count = 3
    /\ fs = <<>>
    /\ dl = IdleDl
    /\ succeeded = {}
    /\ gd = IdleGd
    /\ batch = IdleBatch
    /\ page = FALSE
    /\ sr = IdleSr

Classify ==
    /\ verdict = NoVerdict
    /\ verdict' = is_likely_datasheet(probe.exists, probe.size, fitz, probe.pdf)
    /\ UNCHANGED <<probe, fitz, retry_count, fs, dl, succeeded, page, sr, gd, batch>>

NextClassify == Classify

SpecClassify == InitClassify /\ [][NextClassify]_vars

(***************************************************************************)
(* Manufacturer identification and the search strategies.                  *)
(***************************************************************************)
StartsWith(str, prefix) ==
    /\ Len(str) >= Len(prefix)
    /\ SubSeq(str, 1, Len(prefix)) = prefix

MinOf(S) == CHOOSE x \in S : \A y \in S : x <= y

NoManufacturer == "None"
PrefixLen == 3

\* prefix_map, in dict (insertion) order
prefix_map ==
    << <<<<"l","m">>, "ti">>, <<<<"t","p","s">>, "ti">>, <<<<"a","d","s">>, "ti">>,
       <<<<"m","s","p">>, "ti">>, <<<<"c","c">>, "ti">>, <<<<"t","l","v">>, "ti">>,
       <<<<"m","c">>, "nxp">>, <<<<"a","d">>, "analog">>, <<<<"l","t">>, "analog">>,
       <<<<"m","a","x">>, "analog">>, <<<<"n","c","p">>, "onsemi">>,
       <<<<"n","c","v">>, "onsemi">>, <<<<"s","t","m">>, "st">>, <<<<"l","6">>, "st">>,
       <<<<"l","7">>, "st">>, <<<<"b","s","p">>, "infineon">>,
       <<<<"i","r","f","p">>, "infineon">>, <<<<"i","r","f">>, "infineon">>,
       <<<<"t","l","s">>, "infineon">>, <<<<"t","l","e">>, "infineon">>,
       <<<<"m","i","c">>, "microchip">>, <<<<"p","i","c">>, "microchip">>,
       <<<<"a","t","m","e","g","a">>, "microchip">>, <<<<"b","d">>, "rohm">> >>

\* mutant: the last matching entry of the table wins
identify_manufacturer_LastMatch(part_number) ==
    LET part_prefix == SubSeq(LowerStr(part_number), 1, Min(PrefixLen, Len(part_number)))
        hits == {i \in DOMAIN prefix_map : StartsWith(part_prefix, prefix_map[i][1])}
    IN  IF hits = {} THEN NoManufacturer
        ELSE prefix_map[CHOOSE i \in hits : \A j \in hits : j <= i][2]

identify_manufacturer(part_number) ==
    LET part_prefix == SubSeq(LowerStr(part_number), 1, Min(PrefixLen, Len(part_number)))
        hits == {i \in DOMAIN prefix_map : StartsWith(part_prefix, prefix_map[i][1])}
    IN  IF hits = {} THEN NoManufacturer ELSE prefix_map[MinOf(hits)][2]

(***************************************************************************)
(* Identification harness: _identify_manufacturer applied to part numbers  *)
(* built from every prefix of the table, in both cases, and to others.     *)
(***************************************************************************)
UpperChar(c) ==
    IF c \in Range(LowerChars)
    THEN UpperChars[CHOOSE i \in DOMAIN LowerChars : LowerChars[i] = c]
    ELSE c

UpperStr(str) == [i \in DOMAIN str |-> UpperChar(str[i])]

IdentifySuffixes == {<<>>, <<"1">>, <<"3", "2", "8", "P">>}

IdentifyParts ==
    {prefix_map[i][1] \o suffix : i \in DOMAIN prefix_map, suffix \in IdentifySuffixes}
    \cup {UpperStr(prefix_map[i][1]) \o suffix :
             i \in DOMAIN prefix_map, suffix \in IdentifySuffixes}
    \cup {<<>>, <<"x">>, <<"l">>, <<"a">>, <<"1", "l", "m">>, <<"C", "A", "T", "1">>,
          <<"a", "t", "m">>, <<"I", "R", "G", "4">>, <<" ", "l", "m">>}

InitIdentify ==
    /\ probe \in [part : IdentifyParts]
    /\ verdict = NoVerdict
    /\ fitz = TRUE
    /\ retry_count = DefaultRetryCount
    /\ fs = <<>>
    /\ dl = IdleDl
    /\ succeeded = {}
    /\ gd = IdleGd
    /\ batch = IdleBatch
    /\ page = FALSE
    /\ sr = IdleSr

Identify ==
    /\ verdict = NoVerdict
    /\ verdict' = [manufacturer |-> identify_manufacturer(probe.part)]
    /\ UNCHANGED <<probe, fitz, retry_count, fs, dl, succeeded, page, sr, gd, batch>>

NextIdentify == Identify

SpecIdentify == InitIdentify /\ [][NextIdentify]_vars

manufacturer_names(manufacturer) ==
    CASE manufacturer = "ti"        -> <<"Texas", " ", "Instruments">>
      [] manufacturer = "nxp"       -> <<"NXP", " ", "Semiconductors">>
      [] manufacturer = "analog"    -> <<"Analog", " ", "Devices">>
      [] manufacturer = "onsemi"    -> <<"ON", " ", "Semiconductor">>
      [] manufacturer = "st"        -> <<"STMicroelectronics">>
      [] manufacturer = "infineon"  -> <<"Infineon", " ", "Technologies">>
      [] manufacturer = "microchip" -> <<"Microchip", " ", "Technology">>
      [] manufacturer = "rohm"      -> <<"ROHM", " ", "Semiconductor">>
      [] OTHER                      -> <<manufacturer>>

\* a query: the part number's characters followed by word tokens
\* mutant: a part without a manufacturer still gets a second query
get_manufacturer_specific_search_Always(part_number) ==
    LET manufacturer == identify_manufacturer(part_number)
    IN  IF manufacturer = NoManufacturer
        THEN part_number \o <<" ", "manufacturer", " ", "datasheet", " ", "filetype:pdf">>
        ELSE part_number \o <<" ">> \o manufacturer_names(manufacturer)
                         \o <<" ", "datasheet", " ", "filetype:pdf">>

get_manufacturer_specific_search(part_number) ==
    LET manufacturer == identify_manufacturer(part_number)
    IN  IF manufacturer = NoManufacturer THEN None
        ELSE part_number \o <<" ">> \o manufacturer_names(manufacturer)
                         \o <<" ", "datasheet", " ", "filetype:pdf">>

\* mutant: the manufacturer-specific query is tried last
search_strategies_ManufacturerLast(part_number) ==
    SelectSeq(<< part_number \o <<" ", "datasheet", " ", "filetype:pdf">>,
                 part_number \o <<" ", "technical", " ", "documentation", " ", "filetype:pdf">>,
                 part_number \o <<" ", "specifications", " ", "datasheet", " ", "pdf">>,
                 part_number \o <<" ", "datasheet">>,
                 get_manufacturer_specific_search(part_number) >>,
              LAMBDA q : q # None)

\* the list built by search_by_part_number, None entries filtered out
search_strategies(part_number) ==
    SelectSeq(<< part_number \o <<" ", "datasheet", " ", "filetype:pdf">>,
                 get_manufacturer_specific_search(part_number),
                 part_number \o <<" ", "technical", " ", "documentation", " ", "filetype:pdf">>,
                 part_number \o <<" ", "specifications", " ", "datasheet", " ", "pdf">>,
                 part_number \o <<" ", "datasheet">> >>,
              LAMBDA q : q # None)

\* "filetype:" in search_term
HasFiletype(search_term) == \E i \in DOMAIN search_term : search_term[i] = "filetype:pdf"

\* search_term.split()[0] if " " in search_term else search_term
\* (part numbers here hold at least one non-blank character)
FirstToken(search_term) ==
    IF \A i \in DOMAIN search_term : search_term[i] # " " THEN search_term
    ELSE LET first == MinOf({i \in DOMAIN search_term : search_term[i] # " "})
             stop  == MinOf({j \in first..(Len(search_term) + 1) :
                               j = Len(search_term) + 1 \/ search_term[j] = " "})
         IN  SubSeq(search_term, first, stop - 1)

(***************************************************************************)
(* Candidate ranking (_try_google_search, "if pdf_links:").                *)
(***************************************************************************)
manufacturer_domains ==
    {"ti.com", "analog.com", "nxp.com", "microchip.com", "st.com", "infineon.com",
     "vishay.com", "rohm.com", "toshiba.com", "diodes.com", "onsemi.com",
     "maximintegrated.com", "renesas.com", "issi.com", "cypress.com", "silabs.com",
     "xilinx.com", "intel.com", "amd.com", "skyworksinc.com", "nexperia.com",
     "latticesemi.com", "mouser.com", "digikey.com", "arrow.com",
     "futureelectronics.com", "newark.com", "farnell.com", "element14.com",
     "avnet.com", "rs-online.com", "tme.eu", "reichelt.com", "lcsc.com",
     "alldatasheet.com", "datasheetq.com", "datasheet.octopart.com",
     "datasheets360.com", "datasheetspdf.com", "digchip.com"}

\* urllib.parse.urlparse(pdf_url).netloc
Netloc(url) ==
    IF url = <<>> \/ url[1] # "https://" THEN <<>>
    ELSE LET stop == MinOf({j \in 2..(Len(url) + 1) : j = Len(url) + 1 \/ url[j] = "/"})
         IN  SubSeq(url, 2, stop - 1)

is_manufacturer(url) == \E mfr \in manufacturer_domains : Contains(Netloc(url), <<mfr>>)

\* not pdf_url or "googleusercontent" in pdf_url or "webcache" in pdf_url
SkippedLink(url) ==
    \/ url = None
    \/ Contains(url, <<"googleusercontent">>)
    \/ Contains(url, <<"webcache">>)

MaxTries == 10

\* the links the ranking loop appends to manufacturer_pdfs
manufacturer_pdfs(pdf_links) ==
    SelectSeq(pdf_links, LAMBDA u : ~SkippedLink(u) /\ is_manufacturer(u))

\* the links the ranking loop appends to other_pdfs
other_pdfs(pdf_links) ==
    SelectSeq(pdf_links, LAMBDA u : ~SkippedLink(u) /\ ~is_manufacturer(u))

\* mutant: the other links are put first
prioritized_pdfs_OthersFirst(pdf_links) ==
    other_pdfs(pdf_links) \o manufacturer_pdfs(pdf_links)

\* prioritized_pdfs = manufacturer_pdfs + other_pdfs
prioritized_pdfs(pdf_links) ==
    manufacturer_pdfs(pdf_links) \o other_pdfs(pdf_links)

\* mutant: the download loop runs over the whole ranked list
loop_pdfs_All(prioritized) == prioritized

\* prioritized_pdfs[:10], the list the download loop runs over
loop_pdfs(prioritized) == SubSeq(prioritized, 1, Min(MaxTries, Len(prioritized)))

(***************************************************************************)
(* Ranking harness: the ranking of _try_google_search applied to link      *)
(* lists of up to MaxRankLinks hrefs.                                      *)
(***************************************************************************)
UrlMouser == <<"https://", "www.", "mouser.com", "/", "ds/lm358", ".pdf">>
UrlBlog == <<"https://", "blog.", "example.net", "/", "lm358", ".pdf">>
UrlTiCached == <<"https://", "www.", "ti.com", "/", "webcache", "/", "lm358", ".pdf">>

RankHrefs == {UrlTi, UrlMouser, UrlOther, UrlBlog, UrlCache, UrlTiCached, None}

MaxRankLinks == 4

RankInputs == UNION {[1..n -> RankHrefs] : n \in 0..MaxRankLinks}

InitRank ==
    /\ probe \in [pdf_links : RankInputs]
    /\ verdict = NoVerdict
    /\ fitz = TRUE
    /\ retry_count = DefaultRetryCount
    /\ fs = <<>>
    /\ dl = IdleDl
    /\ succeeded = {}
    /\ gd = IdleGd
    /\ batch = IdleBatch
    /\ page = TRUE
    /\ sr = IdleSr

Rank ==
    /\ verdict = NoVerdict
    /\ verdict' = [prioritized_pdfs |-> prioritized_pdfs(probe.pdf_links)]
    /\ UNCHANGED <<probe, fitz, retry_count, fs, dl, succeeded, page, sr, gd, batch>>

NextRank == Rank

SpecRank == InitRank /\ [][NextRank]_vars

(***************************************************************************)
(* search_by_part_number: the strategy cascade and the direct-source probe *)
(***************************************************************************)
MaxLinks == 2

\* hrefs the page provider may hand back for a result link
Hrefs == {UrlTi, UrlOther, UrlCache, None}
LinkLists == UNION {[1..n -> Hrefs] : n \in 0..MaxLinks}
\* hrefs of the first link matched on a manufacturer's page; get_attribute
\* gives None for an anchor that has no href
ProbeHrefs == {UrlTi, UrlOther, None}

Parts == {<<"L","M","3","5","8">>, <<"C","A","T","1">>, <<"N","C","P","1">>}

SrFrame(part) ==
    [pc |-> "start", part |-> part, strategies |-> <<>>, sidx |-> 0,
     cands |-> <<>>, cidx |-> 0, tried |-> <<>>, dest |-> <<>>,
     result |-> NoResult,
     queried |-> <<>>,      \* history: the queries handed to the page provider
     accepted |-> None,     \* history: the path of the file the classifier accepted
     probed |-> FALSE,      \* history: _try_direct_manufacturer_url was called
     rejected |-> FALSE,    \* history: the previous candidate's file was rejected
     bad |-> {},            \* history: URLs that gave a content error in this call
     badhere |-> {},        \* history: ... in the running _try_google_search
     hadfile |-> FALSE,     \* history: a file existed at the target path at the call
     lasterr |-> None,      \* history: the message of the last strategy's failure
     nosleep |-> FALSE]     \* history: the last _try_google_search ended at its
                            \* page.goto, before any time.sleep

Failure(message) == Result(FALSE, message, None, None)

\* "return ..." of search_by_part_number
Return(f, result) == [f EXCEPT !.pc = "done", !.result = result]

\* mutant: the code after the loop runs as soon as one strategy has failed
NextStrategy_ProbeEarly(f, message) ==
    [f EXCEPT !.pc = "probe", !.cands = <<>>, !.cidx = 0,
              !.tried = <<>>, !.rejected = FALSE, !.badhere = {},
              !.lasterr = message]

\* the end of one _try_google_search that failed with the given message: the
\* next strategy of the for loop, whose call overwrites the message, or the
\* code after the loop
NextStrategy(f, message) ==
    IF f.sidx < Len(f.strategies)
    THEN [f EXCEPT !.pc = "query", !.sidx = @ + 1, !.cands = <<>>, !.cidx = 0,
                   !.tried = <<>>, !.rejected = FALSE, !.badhere = {}]
    ELSE [f EXCEPT !.pc = "probe", !.cands = <<>>, !.cidx = 0,
                   !.tried = <<>>, !.rejected = FALSE, !.badhere = {},
                   !.lasterr = message]

\* mutant: an accepted file does not end the cascade (the loop goes on)
Accept_Continue(f, res) ==
    [f EXCEPT !.accepted = res.filepath, !.pc = "cand", !.cidx = @ + 1]

\* mutant: the success is returned without the file's path
Accept_NoPath(f, res) ==
    [Return(f, Result(TRUE, <<"Successfully downloaded datasheet from",
                              IF is_manufacturer(res.download_url)
                              THEN "manufacturer/trusted site" ELSE "other source">>
                            \o res.message,
                      None, res.download_url))
     EXCEPT !.accepted = res.filepath]

\* "if is_datasheet: return True, ..." passed up by search_by_part_number
Accept(f, res) ==
    [Return(f, Result(TRUE, <<"Successfully downloaded datasheet from",
                              IF is_manufacturer(res.download_url)
                              THEN "manufacturer/trusted site" ELSE "other source">>
                            \o res.message,
                      res.filepath, res.download_url))
     EXCEPT !.accepted = res.filepath]

\* mutant: the rejected file is kept
remove_rejected_Kept(filepath) == fs

\* os.remove(filepath) of the reject branch
remove_rejected(filepath) == RemoveFile(filepath)

\* what fitz makes of a file: a truncated body either fails to open or is
\* repaired
ParsedPdfs(file) ==
    IF IsComplete(file) THEN {Web(file.url).pdf}
    ELSE {Web(file.url).pdf, [Web(file.url).pdf EXCEPT !.err = "open"]}

\* the retry counts the cascade is run with
MaxSearchRetries == 2

InitSearch ==
    /\ probe = NoProbe
    /\ verdict = NoVerdict
    /\ fitz \in BOOLEAN
    /\ retry_count \in 0..MaxSearchRetries
    /\ page \in BOOLEAN
    /\ dl = IdleDl
    /\ succeeded = {}
    /\ gd = IdleGd
    /\ batch = IdleBatch
    /\ \E part \in Parts :
          /\ fs \in {<<>>} \cup {(OutputPath(part) :> File(u, NumChunks)) : u \in {UrlTi, UrlOther}}
          /\ sr = [SrFrame(part) EXCEPT !.hadfile = (fs # <<>>)]

\* entry of search_by_part_number: the session check and the strategy list
SearchBegin ==
    /\ sr.pc = "start"
    /\ sr' = IF ~page
             THEN Return(sr, Failure(<<"Browser not started. Call 'start()' first.">>))
             ELSE [sr EXCEPT !.pc = "query", !.sidx = 1,
                             !.strategies = search_strategies(sr.part)]
    /\ UNCHANGED <<probe, verdict, fitz, retry_count, fs, dl, succeeded, page, gd, batch>>

\* the failure messages of _try_google_search
SearchError == <<"Error during search", "<exception>">>
NoSuitablePdf == <<"No suitable PDF found in search results">>
NoneValid(n) == <<"Downloaded", n, "PDFs but none were valid datasheets">>

\* _try_google_search up to the download loop: the page provider is asked for
\* the strategy's links, which are ranked
QueryWith(lists) ==
    /\ sr.pc = "query"
    /\ LET search_term == sr.strategies[sr.sidx]
           asked == [sr EXCEPT !.queried = Append(@, search_term), !.nosleep = FALSE]
       IN  \/ \* page.goto raised, the sleep after it is skipped:
              \* "Error during search"
              sr' = NextStrategy([asked EXCEPT !.nosleep = TRUE], SearchError)
           \/ \* a later call of the page provider raised
              sr' = NextStrategy(asked, SearchError)
           \/ \E pdf_links \in lists :
                 sr' = IF prioritized_pdfs(pdf_links) = <<>>
                       THEN NextStrategy(asked, NoSuitablePdf)
                       ELSE [asked EXCEPT !.pc = "cand",
                                          !.cands = prioritized_pdfs(pdf_links),
                                          !.cidx = 1, !.tried = <<>>,
                                          !.dest = FirstToken(search_term)]
    /\ UNCHANGED <<probe, verdict, fitz, retry_count, fs, dl, succeeded, page, gd, batch>>

Query == QueryWith(LinkLists)

\* mutant: no look at tried_pdfs
already_tried_Never(f) == FALSE

\* "if pdf_url in tried_pdfs"
already_tried(f) == f.cands[f.cidx] \in Range(f.tried)

\* the download failed for the content type ("Not a PDF file: ...")
IsBadType(result) == ~result.success /\ result.message[1] = "Not a PDF file"

\* one turn of "for i, pdf_url in enumerate(prioritized_pdfs[:10])" up to the
\* call of download_direct_pdf
Candidate ==
    /\ sr.pc = "cand"
    /\ IF sr.cidx > Len(loop_pdfs(sr.cands))
       THEN \* "Downloaded N PDFs but none were valid datasheets"
            /\ sr' = NextStrategy(sr, NoneValid(Len(sr.tried)))
            /\ dl' = dl
       ELSE IF already_tried(sr)
       THEN /\ sr' = [sr EXCEPT !.cidx = @ + 1]
            /\ dl' = dl
       ELSE /\ sr' = [sr EXCEPT !.pc = "dl", !.tried = Append(@, sr.cands[sr.cidx]),
                                !.rejected = FALSE]
            /\ dl' = BeginDownload(sr.cands[sr.cidx], sr.dest, FALSE)
    /\ UNCHANGED <<probe, verdict, fitz, retry_count, fs, succeeded, page, gd, batch>>

\* download_direct_pdf returned: classify, then accept, or delete and go on
AfterDownload ==
    /\ sr.pc = "dl"
    /\ dl.pc = "done"
    /\ dl' = IdleDl
    /\ IF dl.result.success
       THEN LET filepath == dl.result.filepath
            IN  \E pdf \in ParsedPdfs(fs[filepath]) :
                   IF is_likely_datasheet(Exists(filepath), FileSize(fs[filepath]),
                                          fitz, pdf).is_datasheet
                   THEN /\ sr' = Accept(sr, dl.result)
                        /\ fs' = fs
                   ELSE /\ sr' = [sr EXCEPT !.pc = "cand", !.cidx = @ + 1,
                                            !.rejected = TRUE,
                                            !.bad = @ \cup {dl.url},
                                            !.badhere = @ \cup {dl.url}]
                        /\ fs' = remove_rejected(filepath)
       ELSE /\ sr' = IF IsBadType(dl.result)
                     THEN [sr EXCEPT !.pc = "cand", !.cidx = @ + 1,
                                     !.bad = @ \cup {dl.url},
                                     !.badhere = @ \cup {dl.url}]
                     ELSE [sr EXCEPT !.pc = "cand", !.cidx = @ + 1]
            /\ fs' = fs
    /\ UNCHANGED <<probe, verdict, fitz, retry_count, succeeded, page, gd, batch>>

(***************************************************************************)
(* _try_direct_manufacturer_url                                            *)
(***************************************************************************)
LeadingRun(str, S) ==
    IF str = <<>> \/ str[1] \notin S THEN 0
    ELSE MinOf({n \in 1..Len(str) : n = Len(str) \/ str[n + 1] \notin S})

_normalize_ti_part(part_number) ==
    LET part == LowerStr(part_number)
        nl == LeadingRun(part, Range(LowerChars))
        nd == LeadingRun(SubSeq(part, nl + 1, Len(part)), Digits)
    IN  IF nl = 0 \/ nd = 0 THEN part
        ELSE IF \/ "q" \in Range(part)
                \/ Contains(part, <<"a","u","t","o","m","o","t","i","v","e">>)
        THEN SubSeq(part, 1, nl + nd) \o <<"-", "q", "1">>
        ELSE SubSeq(part, 1, nl + nd)

TiSymlinkUrl(part_number) ==
    <<"https://", "www.", "ti.com", "/", "lit/ds/symlink/">>
        \o _normalize_ti_part(part_number) \o <<".pdf">>

NotFound == Failure(<<"Could not find datasheet through any method">>)

\* after the strategy loop: identify the manufacturer and probe its site
Probe ==
    /\ sr.pc = "probe"
    /\ gd.pc # "search"   \* a lone _try_google_search returns to get_datasheet
    /\ LET manufacturer == identify_manufacturer(sr.part)
           called == [sr EXCEPT !.probed = TRUE]
       IN  IF manufacturer = NoManufacturer
           THEN sr' = Return(sr, NotFound) /\ dl' = dl
           ELSE IF manufacturer = "ti"
           THEN /\ sr' = [called EXCEPT !.pc = "probe_direct"]
                /\ dl' = BeginDownload(TiSymlinkUrl(sr.part), sr.part, FALSE)
           ELSE IF manufacturer \in {"onsemi", "infineon"}
           THEN \/ \* the provider raised or the pages held no link
                   sr' = Return(called, NotFound) /\ dl' = dl
                \/ \E href \in ProbeHrefs :
                      /\ sr' = [called EXCEPT !.pc = "probe_link"]
                      /\ dl' = BeginDownload(href, sr.part, FALSE)
           ELSE sr' = Return(called, NotFound) /\ dl' = dl
    /\ UNCHANGED <<probe, verdict, fitz, retry_count, fs, succeeded, page, gd, batch>>

\* the TI symlink download returned
ProbeDirectDone ==
    /\ sr.pc = "probe_direct"
    /\ dl.pc = "done"
    /\ IF dl.result.success
       THEN sr' = Return(sr, dl.result) /\ dl' = IdleDl
       ELSE \/ sr' = Return(sr, NotFound) /\ dl' = IdleDl
            \/ \E href \in ProbeHrefs :
                  /\ sr' = [sr EXCEPT !.pc = "probe_link"]
                  /\ dl' = BeginDownload(href, sr.part, FALSE)
    /\ UNCHANGED <<probe, verdict, fitz, retry_count, fs, succeeded, page, gd, batch>>

\* the download of the link found on the manufacturer's page returned
ProbeLinkDone ==
    /\ sr.pc = "probe_link"
    /\ dl.pc = "done"
    /\ dl' = IdleDl
    /\ sr' = IF dl.result.success THEN Return(sr, dl.result) ELSE Return(sr, NotFound)
    /\ UNCHANGED <<probe, verdict, fitz, retry_count, fs, succeeded, page, gd, batch>>

(***************************************************************************)
(* Candidate-loop harness: one part number whose queries return long link  *)
(* lists (more links than the loop tries, repeated links).                 *)
(***************************************************************************)
LoopExtra == 2

DistinctLinks(n) == [i \in 1..n |-> UrlN(i)]
DoubledLinks(n) == [i \in 1..n |-> UrlN((i + 1) \div 2)]

LongLinkLists ==
    {DistinctLinks(n) : n \in {0, MaxTries - 1, MaxTries, MaxTries + LoopExtra}}
    \cup {DoubledLinks(MaxTries + LoopExtra),
          DistinctLinks(MaxTries) \o <<UrlTi>>,
          <<UrlN(2), UrlN(1), UrlN(2), UrlN(1)>>}

\* a part number of one word and one with a blank in it
LoopParts == {<<"C", "A", "T", "1">>, <<"C", "A", " ", "1">>}

InitLoop ==
    /\ probe = NoProbe
    /\ verdict = NoVerdict
    /\ fitz = TRUE
    /\ retry_count \in {1, 2}
    /\ page = TRUE
    /\ dl = IdleDl
    /\ succeeded = {}
    /\ gd = IdleGd
    /\ batch = IdleBatch
    /\ fs = <<>>
    /\ sr \in {SrFrame(part) : part \in LoopParts}

QueryLong == QueryWith(LongLinkLists)

NextLoop ==
    \/ SearchBegin \/ QueryLong \/ Candidate \/ DlStep \/ AfterDownload \/ Probe

SpecLoop == InitLoop /\ [][NextLoop]_vars

(***************************************************************************)
(* Catalog harness: search_by_part_number('CATALOG1') in an empty          *)
(* directory, against a page provider whose result pages hold at most one  *)
(* link, always the same product catalog.                                  *)
(***************************************************************************)
CATALOG1 == <<"C", "A", "T", "A", "L", "O", "G", "1">>

CatalogLists == {<<>>, <<UrlOther>>}

InitCatalog ==
    /\ probe = NoProbe
    /\ verdict = NoVerdict
    /\ fitz \in BOOLEAN
    /\ retry_count \in 1..MaxSearchRetries
    /\ page = TRUE
    /\ dl = IdleDl
    /\ succeeded = {}
    /\ gd = IdleGd
    /\ batch = IdleBatch
    /\ fs = <<>>
    /\ sr = SrFrame(CATALOG1)

QueryCatalog == QueryWith(CatalogLists)

NextCatalog ==
    \/ SearchBegin \/ QueryCatalog \/ Candidate \/ DlStep \/ AfterDownload \/ Probe

SpecCatalog == InitCatalog /\ [][NextCatalog]_vars

(***************************************************************************)
(* search_direct_sources and get_datasheet                                 *)
(***************************************************************************)
\* urllib.parse.quote: letters, digits and "_.-~/" are kept, a blank becomes
\* "%20", any other character its escape (one token here)
Quote(str) ==
    [i \in DOMAIN str |->
        IF IsAlnum(str[i]) \/ str[i] \in {"_", ".", "-", "~", "/"} THEN str[i]
        ELSE IF str[i] = " " THEN "%20" ELSE "%XX"]

\* the fixed list of sites, each with its search URL for the part
direct_sources(mpn) ==
    << [name |-> <<"DigiKey">>,
        url |-> <<"https://", "www.", "digikey.com", "/",
                  "en/products/filter?keywords=">> \o Quote(mpn)],
       [name |-> <<"Mouser">>,
        url |-> <<"https://", "www.", "mouser.com", "/", "c/?q=">> \o Quote(mpn)],
       [name |-> <<"Octopart">>,
        url |-> <<"https://", "octopart.com", "/", "search?q=">> \o Quote(mpn)],
       [name |-> <<"Texas", " ", "Instruments">>,
        url |-> <<"https://", "www.", "ti.com", "/",
                  "sitesearch/en-us/docs/universalsearch.tsp?searchTerm=">> \o Quote(mpn)],
       [name |-> <<"Analog", " ", "Devices">>,
        url |-> <<"https://", "www.", "analog.com", "/", "en/search.html?q=">> \o Quote(mpn)] >>

\* the hrefs a site's first datasheet link may carry: DigiKey links relative
\* to its own host, TI absolutely, the other sites show no datasheet link
SourceHrefs(name) ==
    CASE name = <<"DigiKey">> -> {<<"/", "ds/lm358", ".pdf">>}
      [] name = <<"Texas", " ", "Instruments">> -> {UrlTi}
      [] OTHER -> {}

\* f"{parsed_url.scheme}://{parsed_url.netloc}"
base_url(url) == <<url[1]>> \o Netloc(url)

\* "if href.startswith('/'): href = base_url + href"
absolute_href(href, source_url) ==
    IF href[1] = "/" THEN base_url(source_url) \o href ELSE href

GdFrame(mpn, download) ==
    [pc |-> "start", mpn |-> mpn, download |-> download,
     srcidx |-> 0, results |-> <<>>, ret |-> None,
     cascade |-> NoResult,   \* history: what search_by_part_number returned
     fetched |-> <<>>,       \* history: the URLs get_datasheet itself downloaded
     got |-> NoResult,       \* history: what that download returned
     raised |-> FALSE]       \* history: the source visited last raised

\* entry of get_datasheet
GetBegin ==
    /\ gd.pc = "start"
    /\ IF gd.download
       THEN /\ gd' = [gd EXCEPT !.pc = "cascade"]
            /\ sr' = SrFrame(gd.mpn)
       ELSE /\ gd' = [gd EXCEPT !.pc = "sources", !.srcidx = 1]
            /\ sr' = sr
    /\ UNCHANGED <<probe, verdict, fitz, retry_count, fs, dl, succeeded, page, batch>>

\* search_by_part_number returned to get_datasheet (its frame is kept as it
\* was at the return)
GetCascadeDone ==
    /\ gd.pc = "cascade"
    /\ sr.pc = "done"
    /\ sr' = sr
    /\ gd' = IF sr.result.success
             THEN [gd EXCEPT !.pc = "done", !.cascade = sr.result,
                             !.ret = sr.result.filepath]
             ELSE [gd EXCEPT !.pc = "sources", !.cascade = sr.result, !.srcidx = 1]
    /\ UNCHANGED <<probe, verdict, fitz, retry_count, fs, dl, succeeded, page, batch>>

\* mutant: a source that raises ends the loop
source_failed_Abort(f) ==
    [f EXCEPT !.srcidx = Len(direct_sources(f.mpn)) + 1, !.raised = TRUE]

\* "except Exception as e: ... continue" of search_direct_sources
source_failed(f) == [f EXCEPT !.srcidx = @ + 1, !.raised = TRUE]

\* one turn of "for source in direct_sources"
GetSource ==
    /\ gd.pc = "sources"
    /\ gd.srcidx <= Len(direct_sources(gd.mpn))
    /\ LET source == direct_sources(gd.mpn)[gd.srcidx]
       IN  \/ \* page.goto or a query of the page raised
              gd' = source_failed(gd)
           \/ \* no datasheet link, or a link without href
              gd' = [gd EXCEPT !.srcidx = @ + 1, !.raised = FALSE]
           \/ \E href \in SourceHrefs(source.name) :
                 gd' = [gd EXCEPT !.srcidx = @ + 1, !.raised = FALSE,
                                  !.results = Append(@,
                                      [url |-> absolute_href(href, source.url),
                                       source |-> source.name])]
    /\ UNCHANGED <<probe, verdict, fitz, retry_count, fs, dl, succeeded, page, sr, batch>>

\* mutant: the last result is the one downloaded
first_result_Last(results) == results[Len(results)]

\* results[0]
first_result(results) == results[1]

\* search_direct_sources returned to get_datasheet
GetSourcesDone ==
    /\ gd.pc = "sources"
    /\ gd.srcidx > Len(direct_sources(gd.mpn))
    /\ IF gd.download
       THEN /\ sr' = sr
            /\ IF gd.results # <<>>
               THEN /\ gd' = [gd EXCEPT !.pc = "dl",
                                        !.fetched = Append(@, first_result(gd.results).url)]
                    /\ dl' = BeginDownload(first_result(gd.results).url, gd.mpn, FALSE)
               ELSE /\ gd' = [gd EXCEPT !.pc = "done", !.ret = None]
                    /\ dl' = dl
       ELSE \* self._try_google_search(f"{mpn} datasheet filetype:pdf")
            /\ gd' = [gd EXCEPT !.pc = "search"]
            /\ sr' = [SrFrame(gd.mpn) EXCEPT
                         !.pc = "query", !.sidx = 1,
                         !.strategies = <<gd.mpn \o <<" ", "datasheet", " ", "filetype:pdf">>>>]
            /\ dl' = dl
    /\ UNCHANGED <<probe, verdict, fitz, retry_count, fs, succeeded, page, batch>>

\* download_direct_pdf(results[0]['url'], mpn) returned to get_datasheet
GetDownloadDone ==
    /\ gd.pc = "dl"
    /\ dl.pc = "done"
    /\ dl' = IdleDl
    /\ gd' = [gd EXCEPT !.pc = "done", !.got = dl.result,
                        !.ret = IF dl.result.success THEN dl.result.filepath ELSE None]
    /\ UNCHANGED <<probe, verdict, fitz, retry_count, fs, succeeded, page, sr, batch>>

\* the default of max_results
MaxResults == 5

\* the result entries made of pdf_links[:max_results]
link_results(pdf_links) ==
    LET urls == SelectSeq(SubSeq(pdf_links, 1, Min(MaxResults, Len(pdf_links))),
                          LAMBDA url : url # None)
    IN  [i \in DOMAIN urls |-> [url |-> urls[i], source |-> Netloc(urls[i])]]

\* _try_google_search returned to get_datasheet, which reads the links of the
\* page and returns results[:max_results]
GetSearchDone ==
    /\ gd.pc = "search"
    /\ sr.pc \in {"probe", "done"}
    /\ sr' = IdleSr
    /\ \/ \* page.query_selector_all raised: the exception leaves get_datasheet
          gd' = [gd EXCEPT !.pc = "raised"]
       \/ \E pdf_links \in LinkLists :
             LET all == gd.results \o link_results(pdf_links)
             IN  gd' = [gd EXCEPT !.pc = "done",
                                  !.ret = SubSeq(all, 1, Min(MaxResults, Len(all)))]
    /\ UNCHANGED <<probe, verdict, fitz, retry_count, fs, dl, succeeded, page, batch>>

(***************************************************************************)
(* get_datasheet harness: one part number, in both modes, with an empty    *)
(* output directory or a file already at the target path.                  *)
(***************************************************************************)
GetParts == {<<"L", "M", "3", "5", "8">>}

InitGet ==
    /\ probe = NoProbe
    /\ verdict = NoVerdict
    /\ fitz = TRUE
    /\ retry_count = 1
    /\ page = TRUE
    /\ dl = IdleDl
    /\ succeeded = {}
    /\ batch = IdleBatch
    /\ sr = IdleSr
    /\ \E mpn \in GetParts :
          /\ fs \in {<<>>, (OutputPath(mpn) :> File(UrlOther, NumChunks))}
          /\ gd \in {GdFrame(mpn, download) : download \in BOOLEAN}

NextGet ==
    \/ GetBegin \/ GetCascadeDone \/ GetSource \/ GetSourcesDone
    \/ GetDownloadDone \/ GetSearchDone
    \/ SearchBegin \/ Query \/ Candidate \/ DlStep \/ AfterDownload
    \/ Probe \/ ProbeDirectDone \/ ProbeLinkDone

SpecGet == InitGet /\ [][NextGet]_vars

(***************************************************************************)
(* The batch loops: cli.main over MPNs and process_csv_file over rows.     *)
(* A call into the downloader is one step here; what it returns is drawn   *)
(* from what the callee can return or raise.                               *)
(***************************************************************************)
\* an empty CSV cell as pandas reads it: a float, not a str
NaN == <<"<nan>">>

MaxOf(S) == CHOOSE x \in S : \A y \in S : x >= y

\* line.strip()
Strip(line) ==
    LET inked == {i \in DOMAIN line : line[i] # " "}
    IN  IF inked = {} THEN <<>> ELSE SubSeq(line, MinOf(inked), MaxOf(inked))

\* [line.strip() for line in f if line.strip()]
RECURSIVE file_mpns(_)
file_mpns(lines) ==
    IF lines = <<>> THEN <<>>
    ELSE IF Strip(Head(lines)) = <<>> THEN file_mpns(Tail(lines))
    ELSE <<Strip(Head(lines))>> \o file_mpns(Tail(lines))

\* how a call into the downloader may end.  A NaN part number raises
\* (TypeError at the sanitizing join, AttributeError at .lower());
\* download_direct_pdf catches RequestException only, so an OSError of the
\* file write leaves it; get_datasheet(download=False) queries the page
\* outside any try; search_by_part_number catches what its strategies raise
CallOutcomes(fn, part_number) ==
    IF part_number = NaN THEN {"raise"}
    ELSE CASE fn = "search_by_part_number" -> {"success", "failure"}
           [] fn = "download_direct_pdf"   -> {"success", "failure", "raise"}
           [] fn = "get_datasheet"         -> {"list", "raise"}

Call(fn, mpn, download) == [fn |-> fn, mpn |-> mpn, download |-> download]

BatchFrame(args) ==
    [pc |-> "start", args |-> args, mpns |-> <<>>, idx |-> 0,
     exit |-> -1,            \* the exit code of main, -1 while it runs
     summary |-> FALSE,      \* download_summary.csv was written
     calls |-> <<>>,         \* history: the calls into the downloader
     recorded |-> <<>>]      \* history: the items whose outcome was reported

Recorded(f, item, outcome) ==
    [f EXCEPT !.recorded = Append(@, [item |-> item, outcome |-> outcome])]

\* main up to the loop: the MPNs of the arguments, then "with downloader:"
MainBegin ==
    /\ batch.pc = "start"
    /\ LET args == batch.args
       IN  IF args.input = "csv"
           THEN batch' = [batch EXCEPT !.pc = "csv"] /\ page' = page
           ELSE IF args.input = "file" /\ ~args.readable
           THEN batch' = [batch EXCEPT !.pc = "done", !.exit = 1] /\ page' = page
           ELSE LET mpns == IF args.input = "mpn" THEN <<args.mpn>>
                            ELSE file_mpns(args.lines)
                IN  \/ \* start() raised: "except Exception ... return 1"
                       /\ batch' = [batch EXCEPT !.pc = "done", !.exit = 1, !.mpns = mpns]
                       /\ page' = page
                    \/ /\ batch' = [batch EXCEPT !.pc = "loop", !.idx = 1, !.mpns = mpns]
                       /\ page' = TRUE
    /\ UNCHANGED <<probe, verdict, fitz, retry_count, fs, dl, succeeded, sr, gd>>

\* "except Exception as e: logger.error(...)" inside the for loop of main
item_raised(f, mpn) == [Recorded(f, mpn, "error") EXCEPT !.idx = @ + 1]

\* one turn of "for mpn in mpns" of main
MainItem ==
    /\ batch.pc = "loop"
    /\ batch.idx <= Len(batch.mpns)
    /\ LET mpn == batch.mpns[batch.idx]
           args == batch.args
           next(f, outcome) == [Recorded(f, mpn, outcome) EXCEPT !.idx = @ + 1]
           called(c) == [batch EXCEPT !.calls = Append(@, c)]
       IN  IF args.direct_sources
           THEN LET looked == called(Call("search_direct_sources", mpn, FALSE))
                IN  \/ batch' = next(looked, IF args.list_only THEN "list" ELSE "failure")
                    \/ /\ ~args.list_only   \* results[0] is downloaded
                       /\ \E o \in CallOutcomes("download_direct_pdf", mpn) :
                             LET f == [looked EXCEPT !.calls =
                                          Append(@, Call("download_direct_pdf", mpn, TRUE))]
                             IN  batch' = IF o = "raise" THEN item_raised(f, mpn)
                                          ELSE next(f, o)
           ELSE IF args.list_only
           THEN \E o \in CallOutcomes("get_datasheet", mpn) :
                   LET f == called(Call("get_datasheet", mpn, FALSE))
                   IN  batch' = IF o = "raise" THEN item_raised(f, mpn) ELSE next(f, o)
           ELSE \E o \in CallOutcomes("search_by_part_number", mpn) :
                   LET f == called(Call("search_by_part_number", mpn, TRUE))
                   IN  batch' = IF o = "raise" THEN item_raised(f, mpn) ELSE next(f, o)
    /\ UNCHANGED <<probe, verdict, fitz, retry_count, fs, dl, succeeded, page, sr, gd>>

\* the for loop of main is over: __exit__ stops the session, "return 0"
MainEnd ==
    /\ batch.pc = "loop"
    /\ batch.idx > Len(batch.mpns)
    /\ batch' = [batch EXCEPT !.pc = "done", !.exit = 0]
    /\ page' = FALSE
    /\ UNCHANGED <<probe, verdict, fitz, retry_count, fs, dl, succeeded, sr, gd>>

\* process_csv_file up to the loop: the file is read and checked, the
\* session started
CsvBegin ==
    /\ batch.pc = "csv"
    /\ IF ~batch.args.readable \/ ~batch.args.columns
       THEN \* logged, "return"; main returns 0
            batch' = [batch EXCEPT !.pc = "done", !.exit = 0] /\ page' = page
       ELSE \/ \* self.start() raised: the exception leaves main
               batch' = [batch EXCEPT !.pc = "raised"] /\ page' = page
            \/ batch' = [batch EXCEPT !.pc = "rows", !.idx = 1] /\ page' = TRUE
    /\ UNCHANGED <<probe, verdict, fitz, retry_count, fs, dl, succeeded, sr, gd>>

\* row.get(part_number_column) if part_number_column else f"part_{idx}"
row_part(args, idx) ==
    IF args.part_column THEN args.rows[idx].part
    ELSE <<"part_", ToString(idx - 1)>>

\* one turn of "for idx, row in df.iterrows()"; the calls are made outside
\* any try, an exception leaves process_csv_file and main
CsvRow ==
    /\ batch.pc = "rows"
    /\ batch.idx <= Len(batch.args.rows)
    /\ LET part_number == row_part(batch.args, batch.idx)
           fn == IF batch.args.rows[batch.idx].direct_pdf
                 THEN "download_direct_pdf" ELSE "search_by_part_number"
           f == [batch EXCEPT !.calls = Append(@, Call(fn, part_number, TRUE))]
       IN  \E o \in CallOutcomes(fn, part_number) :
              batch' = IF o = "raise" THEN [f EXCEPT !.pc = "raised"]
                       ELSE [Recorded(f, part_number, o) EXCEPT !.idx = @ + 1]
    /\ UNCHANGED <<probe, verdict, fitz, retry_count, fs, dl, succeeded, page, sr, gd>>

\* the loop over the rows is over: stop(), the summary, and main returns 0
CsvEnd ==
    /\ batch.pc = "rows"
    /\ batch.idx > Len(batch.args.rows)
    /\ batch' = [batch EXCEPT !.pc = "done", !.exit = 0, !.summary = TRUE]
    /\ page' = FALSE
    /\ UNCHANGED <<probe, verdict, fitz, retry_count, fs, dl, succeeded, sr, gd>>

(***************************************************************************)
(* Batch harness: main called with one MPN, with a file of lines, or with  *)
(* a CSV file of rows, of up to MaxItems lines or rows.                    *)
(***************************************************************************)
MaxItems == 2

FileLines == {<<"L", "M", "3", "5", "8">>, <<" ", "C", "A", "T", "1", " ">>, <<" ">>}
CsvRows == [part : {<<"L", "M", "3", "5", "8">>, NaN}, direct_pdf : BOOLEAN]

Args(input, mpn, lines, rows, readable, columns, part_column, direct, list) ==
    [input |-> input, mpn |-> mpn, lines |-> lines, rows |-> rows,
     readable |-> readable, columns |-> columns, part_column |-> part_column,
     direct_sources |-> direct, list_only |-> list]

BatchArgs ==
    {Args("mpn", mpn, <<>>, <<>>, TRUE, TRUE, TRUE, d, l) :
        mpn \in {<<"L", "M", "3", "5", "8">>}, d \in BOOLEAN, l \in BOOLEAN}
    \cup {Args("file", <<>>, lines, <<>>, readable, TRUE, TRUE, d, l) :
        lines \in UNION {[1..n -> FileLines] : n \in 0..MaxItems},
        readable \in BOOLEAN, d \in BOOLEAN, l \in BOOLEAN}
    \cup {Args("csv", <<>>, <<>>, rows, readable, columns, part_column, FALSE, FALSE) :
        rows \in UNION {[1..n -> CsvRows] : n \in 0..MaxItems},
        readable \in BOOLEAN, columns \in BOOLEAN, part_column \in BOOLEAN}

InitBatch ==
    /\ probe = NoProbe
    /\ verdict = NoVerdict
    /\ fitz = TRUE
    /\ retry_count = DefaultRetryCount
    /\ page = FALSE
    /\ dl = IdleDl
    /\ succeeded = {}
    /\ fs = <<>>
    /\ sr = IdleSr
    /\ gd = IdleGd
    /\ batch \in {BatchFrame(args) : args \in BatchArgs}

NextBatch ==
    \/ MainBegin \/ MainItem \/ MainEnd
    \/ CsvBegin \/ CsvRow \/ CsvEnd

SpecBatch == InitBatch /\ [][NextBatch]_vars

Next ==
    \/ SearchBegin \/ Query \/ Candidate \/ DlStep \/ AfterDownload
    \/ Probe \/ ProbeDirectDone \/ ProbeLinkDone

Init == InitSearch

Spec == Init /\ [][Next]_vars

(***************************************************************************)
(* Claims about the classifier (checked under SpecClassify).               *)
(***************************************************************************)
Classified == verdict # NoVerdict

\* the file passed the existence and size rules and fitz can inspect it
ProbeInspected ==
    /\ probe.exists
    /\ probe.size >= 51200 /\ probe.size <= 20480000
    /\ fitz

ProbePagesInBounds == probe.pdf.npages >= 3 /\ probe.pdf.npages <= 200

\* some page among the first min(5, pageCount) carries an exclusion term
ProbeExclusionInFirstPages ==
    \E i \in 1..Min(5, probe.pdf.npages) : \E k \in DOMAIN exclusionary_terms :
        Contains(Lower(PageText(probe.pdf, i)), exclusionary_terms[k])

ProbeInclusionOnPageOne ==
    \E k \in DOMAIN datasheet_terms :
        Contains(Lower(PageText(probe.pdf, 1)), datasheet_terms[k])

ProbeTitleHasExclusion ==
    /\ probe.pdf.title \notin {NoTitle, <<>>}
    /\ \E k \in DOMAIN exclusionary_terms :
           Contains(Lower(probe.pdf.title), exclusionary_terms[k])

\* C8: an inspected file within the size and page-count bounds whose first
\* min(5, pageCount) pages contain an exclusion term is rejected, whatever
\* inclusion terms page 1 or the metadata title carry.
C8_ExclusionTakesPrecedence ==
    (Classified /\ ProbeInspected /\ ProbePagesInBounds /\ ProbeExclusionInFirstPages)
        => ~verdict.is_datasheet

\* C8 witness: page 1 holds "Datasheet Features", page 2 "User Guide"; rejected
C8_Witness ==
    /\ Classified /\ ProbeInspected /\ ProbePagesInBounds
    /\ ProbeInclusionOnPageOne
    /\ probe.pdf.err = "none"
    /\ 2 \in DOMAIN probe.pdf.text
    /\ Contains(Lower(probe.pdf.text[2]), <<"user", "guide">>)
    /\ verdict = Verdict(FALSE, <<"Document appears to be a", "user", "guide">>, TRUE)

ProbeCleanBodyWithInclusion ==
    /\ Classified /\ ProbeInspected /\ ProbePagesInBounds
    /\ probe.pdf.err = "none"
    /\ ~ProbeExclusionInFirstPages
    /\ ProbeInclusionOnPageOne

\* C9 as stated: with no exclusion term in the first 5 pages and an
\* inclusion term on page 1 the verdict is accept, whatever the metadata title.
C9_InclusionDecidesBeforeTitle ==
    ProbeCleanBodyWithInclusion => verdict.is_datasheet

\* C9 amended: with no exclusion term in the first 5 pages and an inclusion
\* term on page 1, the verdict is accept exactly when the metadata title holds
\* no exclusion term; a title with an exclusion term is rejected for the title.
C9_TitleExclusionBeforeInclusion ==
    ProbeCleanBodyWithInclusion =>
        /\ verdict.is_datasheet <=> ~ProbeTitleHasExclusion
        /\ ProbeTitleHasExclusion => verdict.reason[1] = "Metadata title indicates this is a"
        /\ ~ProbeTitleHasExclusion => verdict.reason = <<"Datasheet identified">>

\* C9 witness: inclusion term on page 1, clean body, title "lm358 user guide"
C9_Witness ==
    /\ ProbeCleanBodyWithInclusion
    /\ probe.pdf.title = <<"lm358", "user", "guide">>
    /\ ~verdict.is_datasheet

\* C10: an existing file under 50 KB (51,200 bytes) is rejected whatever its
\* content, page count or metadata, and the PDF is not opened for it.
C10_SmallFileRejectedUnopened ==
    (Classified /\ probe.exists /\ probe.size < 51200)
        => (~verdict.is_datasheet /\ ~verdict.opened)

\* C10 witness: 51,199 bytes, 6 pages, datasheet terms on page 1; too small
C10_Witness ==
    /\ Classified /\ probe.exists /\ probe.size = 51199 /\ fitz
    /\ probe.pdf.npages = 6 /\ ProbeInclusionOnPageOne /\ ~ProbeExclusionInFirstPages
    /\ probe.pdf.err = "none"
    /\ verdict = Verdict(FALSE, <<"File too small">>, FALSE)

\* the file exists and its size is within 50 KB .. 20,000 KB
ProbeSizeInEnvelope ==
    probe.exists /\ probe.size >= 50 * 1024 /\ probe.size <= 20000 * 1024

\* C11: without PyMuPDF every existing file of 50 KB to 20,000 KB is accepted
\* on its size, unopened, whatever its pages, terms, title or defects; a
\* missing file and a file outside the envelope are still rejected.
C11_SizeOnlyWhenInspectionUnavailable ==
    (Classified /\ ~fitz) =>
        /\ ~verdict.opened
        /\ ProbeSizeInEnvelope => verdict = Verdict(TRUE, <<"Accepted based on file size">>, FALSE)
        /\ ~probe.exists => verdict = Verdict(FALSE, <<"File does not exist">>, FALSE)
        /\ (probe.exists /\ probe.size < 50 * 1024) => verdict.reason = <<"File too small">>
        /\ (probe.exists /\ probe.size > 20000 * 1024) => verdict.reason = <<"File too large">>
        /\ ~ProbeSizeInEnvelope => ~verdict.is_datasheet

\* C11 witness: no PyMuPDF, exactly 50 KB, 2 pages, title "lm358 user guide",
\* a file fitz could not even open; accepted
C11_Witness ==
    /\ Classified /\ ~fitz /\ probe.exists /\ probe.size = 51200
    /\ probe.pdf.npages = 2
    /\ probe.pdf.title = <<"lm358", "user", "guide">>
    /\ probe.pdf.err = "open"
    /\ verdict.is_datasheet

\* C12: an inspected file within the size and page-count bounds, with no
\* exclusion term in its first min(5, pageCount) pages or its metadata title,
\* is accepted; the reason is "Datasheet identified" with an inclusion term on
\* page 1 or a datasheet title, else "Likely datasheet based on format" for 5
\* to 100 pages, else "Potential datasheet".
C12_PermissiveOnceOutliersExcluded ==
    (/\ Classified /\ ProbeInspected /\ ProbePagesInBounds
     /\ probe.pdf.err = "none"
     /\ ~ProbeExclusionInFirstPages /\ ~ProbeTitleHasExclusion)
        => /\ verdict.is_datasheet
           /\ verdict.reason =
                 (IF \/ ProbeInclusionOnPageOne
                     \/ /\ probe.pdf.title \notin {NoTitle, <<>>}
                        /\ \/ Contains(Lower(probe.pdf.title), <<"datasheet">>)
                           \/ Contains(Lower(probe.pdf.title), <<"data", "sheet">>)
                  THEN <<"Datasheet identified">>
                  ELSE IF probe.pdf.npages >= 5 /\ probe.pdf.npages <= 100
                  THEN <<"Likely datasheet based on format">>
                  ELSE <<"Potential datasheet">>)

\* C12 witness: 200 pages, no inclusion term, title "LM358"; accepted as
\* "Potential datasheet"
C12_Witness ==
    /\ Classified /\ ProbeInspected
    /\ probe.pdf.npages = 200 /\ probe.pdf.err = "none"
    /\ ~ProbeInclusionOnPageOne /\ ~ProbeExclusionInFirstPages
    /\ probe.pdf.title = <<"LM358">>
    /\ verdict = Verdict(TRUE, <<"Potential datasheet">>, TRUE)

\* the inspection of the probe runs into the error fitz raises: on open, or on
\* the text of a scanned page no exclusion term was found before
ProbeErrorHit ==
    /\ ProbeInspected
    /\ \/ probe.pdf.err = "open"
       \/ /\ probe.pdf.err = "text"
          /\ ProbePagesInBounds
          /\ probe.pdf.errpage <= Min(5, probe.pdf.npages)
          /\ \A i \in 1..(probe.pdf.errpage - 1) : \A k \in DOMAIN exclusionary_terms :
                 ~Contains(Lower(PageText(probe.pdf, i)), exclusionary_terms[k])

\* C13: every call returns a verdict; when opening or reading the file raises,
\* the verdict is reject and its reason is "Error analyzing PDF" followed by the
\* error's message.
C13_ErrorsFailClosed ==
    Classified =>
        /\ verdict.is_datasheet \in BOOLEAN
        /\ verdict.reason # <<>>
        /\ ProbeErrorHit => /\ ~verdict.is_datasheet
                            /\ verdict.reason[1] = "Error analyzing PDF"
                            /\ verdict.reason[2] = ErrorMessage(probe.pdf.err)

\* C13 witness: a 10-page file with datasheet terms whose page 2 cannot be
\* read; rejected with the extraction error
C13_Witness ==
    /\ Classified /\ ProbeInspected
    /\ probe.pdf.npages = 10 /\ ProbeInclusionOnPageOne
    /\ probe.pdf.err = "text" /\ probe.pdf.errpage = 2
    /\ verdict = Verdict(FALSE, <<"Error analyzing PDF", "page text extraction failed">>, TRUE)

(***************************************************************************)
(* Claims about _identify_manufacturer (checked under SpecIdentify).       *)
(***************************************************************************)
Identified == verdict # NoVerdict

\* the table entries whose prefix the part number begins with, case ignored
ListedPrefixes(part_number) ==
    {i \in DOMAIN prefix_map : StartsWith(LowerStr(part_number), prefix_map[i][1])}

\* C14: a part number that begins, case ignored, with a prefix of the table
\* gets the key the table maps such a prefix to; every other part number,
\* the empty one included, gets none.
C14_IdentifyReturnsMappedKey ==
    Identified =>
        IF ListedPrefixes(probe.part) = {}
        THEN verdict.manufacturer = NoManufacturer
        ELSE verdict.manufacturer \in {prefix_map[i][2] : i \in ListedPrefixes(probe.part)}

(***************************************************************************)
(* Claims about the candidate ranking (checked under SpecRank).            *)
(***************************************************************************)
Ranked == verdict # NoVerdict

\* the URL's host holds a domain of the allow-list (substring match)
OnAllowList(url) == \E d \in manufacturer_domains : Contains(Netloc(url), <<d>>)

NotOnAllowList(url) == ~OnAllowList(url)

\* the input links that are candidates of the ranked list, in input order
RankedCandidates ==
    SelectSeq(probe.pdf_links, LAMBDA u : u \in Range(verdict.prioritized_pdfs))

\* C15: in the ranked list no candidate of an allow-listed domain comes after
\* a candidate of another domain, and the candidates of each of the two groups
\* are in the order the input had them in.
C15_RankingIsStablePartition ==
    Ranked =>
        LET ranked == verdict.prioritized_pdfs
        IN  /\ \A i, j \in DOMAIN ranked :
                  (i < j /\ OnAllowList(ranked[j])) => OnAllowList(ranked[i])
            /\ SelectSeq(ranked, OnAllowList) = SelectSeq(RankedCandidates, OnAllowList)
            /\ SelectSeq(ranked, NotOnAllowList) = SelectSeq(RankedCandidates, NotOnAllowList)

\* C15 witness: [other1, mfr1, other2, mfr2] ranked [mfr1, mfr2, other1, other2]
C15_Witness ==
    /\ Ranked
    /\ probe.pdf_links = <<UrlOther, UrlTi, UrlBlog, UrlMouser>>
    /\ verdict.prioritized_pdfs = <<UrlTi, UrlMouser, UrlOther, UrlBlog>>

\* the URL's host is a search-engine cache
CacheHost(url) ==
    \/ Contains(Netloc(url), <<"googleusercontent">>)
    \/ Contains(Netloc(url), <<"webcache">>)

Count(seq, x) == Cardinality({i \in DOMAIN seq : seq[i] = x})

\* C16: the ranked list holds every input link as often as the input does,
\* except the links without a URL and those whose host is a search-engine
\* cache, which it does not hold.
C16_DropsExactlyCacheHosts ==
    Ranked =>
        \A u \in RankHrefs :
            Count(verdict.prioritized_pdfs, u) =
                (IF u = None \/ CacheHost(u) THEN 0 ELSE Count(probe.pdf_links, u))

(***************************************************************************)
(* Claims about download_direct_pdf (checked under SpecDownload).          *)
(***************************************************************************)
Returned == dl.pc = "done"

TraceGets(trace) == {i \in DOMAIN trace : trace[i][1] = "get"}

\* C2: no call returns success with a path whose file is not a complete
\* response body, also after an earlier transfer to it broke mid-body.
C2_NoPartialFileAsSuccess ==
    (Returned /\ dl.result.success)
        => (Exists(dl.result.filepath) /\ fs[dl.result.filepath].written = NumChunks)

\* C5: a call for a destination an earlier call succeeded for (the file not
\* removed since) returns success with the same path and makes no GET.
C5_DownloadIdempotent ==
    (Returned /\ dl.prior)
        => /\ dl.result.success
           /\ dl.result.filepath = dl.path
           /\ TraceGets(dl.trace) = {}

\* C5 witness: a later call for the path a_b.pdf returned success without a GET
C5_Witness ==
    /\ Returned /\ dl.prior /\ dl.result.success
    /\ dl.path = <<"a", "_", "b", ".", "p", "d", "f">>
    /\ Exists(dl.path) /\ dl.trace = <<>>

\* C6: the GET whose response declares a content type with neither "pdf" nor
\* "application/octet-stream" ends the call with failure: no sleep, no further
\* attempt, and the download directory is left as it was.
C6_BadContentTypeNotRetried ==
    [][(/\ dl.pc = "get"
        /\ dl' # dl
        /\ dl'.ctype # NoResponse
        /\ ~(\/ Contains(Lower(dl'.ctype), <<"pdf">>)
             \/ Contains(Lower(dl'.ctype), <<"application/octet-stream">>)))
       => (/\ dl'.pc = "done"
           /\ ~dl'.result.success
           /\ dl'.result.filepath = None
           /\ Len(dl'.trace) = Len(dl.trace) + 1
           /\ fs' = fs)]_vars

\* C6 witness: the single GET answered text/html; the call returned failure
\* and there is no file at the target path
C6_Witness ==
    /\ Returned /\ retry_count = 3
    /\ dl.ctype = <<"text/html; charset=utf-8">>
    /\ dl.trace = << <<"get", "badtype">> >>
    /\ ~dl.result.success
    /\ ~Exists(dl.path)

\* C7: at most retry_count GETs; GETs and sleeps alternate, a GET is followed
\* by a sleep and another GET only if it raised a transport-level error; no
\* sleep follows the last GET; when all retry_count attempts raised, the call
\* returns failure with the last error in its message.
C7_BoundedRetryWithBackoff ==
    dl.pc # "idle" =>
        LET t == dl.trace
            errors == TransportErrors \cup {BodyError}
        IN  /\ Cardinality(TraceGets(t)) <= retry_count
            /\ \A i \in DOMAIN t : t[i][1] = (IF i % 2 = 1 THEN "get" ELSE "sleep")
            /\ \A i \in DOMAIN t : (t[i][1] = "get" /\ i < Len(t)) => t[i][2] \in errors
            /\ dl.pc = "sleep" => t[Len(t)][2] \in errors
            /\ (Returned /\ t # <<>>) => t[Len(t)][1] = "get"
            /\ (Returned /\ Cardinality(TraceGets(t)) = retry_count /\ t # <<>>
                  /\ t[Len(t)][2] \in errors)
                 => /\ ~dl.result.success
                    /\ dl.result.filepath = None
                    /\ dl.result.message[1] = "Failed to download after"
                    /\ dl.result.message[4] = t[Len(t)][2]

\* C7 witness: three attempts, the errors differ, the last one is reported
C7_Witness ==
    /\ Returned /\ retry_count = 3
    /\ dl.trace = << <<"get", "HTTPError">>, <<"sleep", 1>>,
                     <<"get", "ChunkedEncodingError">>, <<"sleep", 2>>,
                     <<"get", "Timeout">> >>
    /\ dl.result = Result(FALSE, <<"Failed to download after", 3, "attempts", "Timeout">>,
                          None, None)

(***************************************************************************)
(* Claims about the cascade (checked under Spec).                          *)
(***************************************************************************)
SearchReturned == sr.pc = "done"

\* C1: the queries handed to the page provider are the generated strategies
\* in their order, each once; once the classifier has accepted a file the call
\* has returned success with that file's path, the prober was not called, and
\* nothing further is queried, downloaded, classified or written.
C1_CascadeStopsAtFirstSuccess ==
    /\ [](/\ sr.queried = SubSeq(sr.strategies, 1, Len(sr.queried))
          /\ Len(sr.queried) <= Len(sr.strategies)
          /\ sr.pc \in {"query", "cand", "dl"} => Len(sr.queried) \in {sr.sidx - 1, sr.sidx}
          /\ sr.probed => Len(sr.queried) = Len(sr.strategies)
          /\ sr.accepted # None =>
                /\ sr.pc = "done"
                /\ sr.result.success
                /\ sr.result.filepath = sr.accepted
                /\ ~sr.probed
                /\ dl.pc = "idle")
    /\ [][sr.accepted # None => UNCHANGED <<sr, dl, fs>>]_vars

\* C1 witness: the second of five strategies succeeded with its first of two
\* candidates; the file is on disk
C1_Witness ==
    /\ SearchReturned /\ sr.result.success
    /\ sr.accepted = sr.result.filepath
    /\ Len(sr.strategies) = 5 /\ Len(sr.queried) = 2
    /\ Len(sr.cands) = 2 /\ sr.cidx = 1
    /\ Exists(sr.result.filepath)

\* C3: a resolution that returns failure, no file having been at the part
\* number's target path before the call, leaves no file at that path.
C3_NoFileLeftOnFailure ==
    (SearchReturned /\ ~sr.result.success /\ ~sr.hadfile)
        => ~Exists(OutputPath(sr.part))

\* the step in which a successfully downloaded candidate is rejected
RejectStep ==
    /\ sr.pc = "dl" /\ dl.pc = "done" /\ dl.result.success
    /\ sr' # sr
    /\ sr'.accepted = None

C17_StrategiesFixedOrder ==
    /\ []((page /\ sr.pc # "start") =>
            LET a == sr.part \o <<" ", "datasheet", " ", "filetype:pdf">>
                b == get_manufacturer_specific_search(sr.part)
                c == sr.part \o <<" ", "technical", " ", "documentation", " ", "filetype:pdf">>
                d == sr.part \o <<" ", "specifications", " ", "datasheet", " ", "pdf">>
                e == sr.part \o <<" ", "datasheet">>
            IN  sr.strategies = (IF identify_manufacturer(sr.part) # NoManufacturer
                                 THEN <<a, b, c, d, e>> ELSE <<a, c, d, e>>))
    /\ [][sr.pc # "start" => sr'.strategies = sr.strategies]_vars

\* C17 witness: CAT1 has no manufacturer; its four strategies were all queried
\* and the second one was "CAT1 technical documentation filetype:pdf"
C17_Witness ==
    /\ SearchReturned /\ sr.part = <<"C", "A", "T", "1">>
    /\ Len(sr.strategies) = 4 /\ Len(sr.queried) = 4
    /\ sr.queried[2] = <<"C", "A", "T", "1", " ", "technical", " ", "documentation",
                         " ", "filetype:pdf">>

\* C20: the direct-source prober is called only after every strategy has been
\* queried and has failed, and only for a part number with an identified
\* manufacturer; once it is called no strategy is queried any more.
C20_ProberOnlyAfterCascade ==
    /\ [](sr.probed =>
            /\ sr.queried = sr.strategies
            /\ sr.strategies # <<>>
            /\ sr.accepted = None
            /\ identify_manufacturer(sr.part) # NoManufacturer)
    /\ [][(sr'.probed /\ ~sr.probed) =>
            (sr.pc = "probe" /\ sr.sidx = Len(sr.strategies))]_vars
    /\ [][sr.probed => (sr'.queried = sr.queried /\ sr'.probed)]_vars
    /\ [][(dl.pc = "idle" /\ dl'.pc # "idle" /\ ~sr'.probed) => sr.pc = "cand"]_vars

\* C20 witness: NCP1 (onsemi): all five strategies failed, then the prober
\* found a link and its download succeeded
C20_Witness ==
    /\ SearchReturned /\ sr.probed /\ sr.result.success
    /\ sr.part = <<"N", "C", "P", "1">>
    /\ Len(sr.queried) = 5
    /\ ~sr.hadfile /\ Exists(sr.result.filepath)

\* C19 as stated: no candidate download of the call is for a URL that gave a
\* content error (wrong content type, classifier reject) earlier in the call.
C19_ContentErrorNeverReattempted ==
    (sr.pc = "dl") => dl.url \notin sr.bad

\* the step that takes note of a candidate's content error
ContentErrorStep ==
    /\ sr.pc = "dl" /\ dl.pc = "done"
    /\ sr' # sr
    /\ \/ dl.result.success /\ sr'.accepted = None
       \/ ~dl.result.success /\ dl.result.message[1] = "Not a PDF file"

\* C19 amended: within one strategy no candidate download is for a URL that
\* gave a content error earlier in that strategy; the step that meets the
\* content error makes no further GET for the URL and moves to the next
\* candidate of the same strategy.  (A later strategy may download it again.)
C19_ContentErrorNotReattemptedInStrategy ==
    /\ [](sr.pc = "dl" => dl.url \notin sr.badhere)
    /\ [][ContentErrorStep =>
            /\ dl'.pc = "idle"
            /\ sr'.pc = "cand"
            /\ sr'.cidx = sr.cidx + 1
            /\ sr'.sidx = sr.sidx /\ sr'.cands = sr.cands
            /\ dl.url \in sr'.badhere]_vars

\* C19 witness: the strategy's two links are the same URL; the first download
\* was rejected by the classifier, the second link was passed over
C19_Witness ==
    /\ sr.pc = "cand" /\ Len(sr.cands) = 2 /\ sr.cands[1] = sr.cands[2]
    /\ sr.cidx = 3
    /\ sr.tried = <<sr.cands[1]>>
    /\ sr.rejected /\ sr.badhere = {sr.cands[1]}

(***************************************************************************)
(* Claims about the candidate loop (checked under SpecLoop).               *)
(***************************************************************************)
\* the number of ranked candidates the loop has taken up so far
LoopTurns == IF sr.pc = "dl" THEN sr.cidx ELSE sr.cidx - 1

FirstIndex(seq, x) == MinOf({i \in DOMAIN seq : seq[i] = x})

\* C18: within one strategy the downloads are for the first occurrences of
\* the URLs among the first (at most 10) ranked candidates, in ranked order:
\* at most 10 downloads, none for a URL downloaded before in the strategy.
C18_AtMostTenInRankedOrderNoRepeat ==
    /\ [](sr.pc \in {"cand", "dl"} =>
            /\ LoopTurns <= 10
            /\ Len(sr.tried) <= 10
            /\ \A i, j \in DOMAIN sr.tried : i # j => sr.tried[i] # sr.tried[j]
            /\ Range(sr.tried) = {sr.cands[i] : i \in 1..LoopTurns}
            /\ \A i, j \in DOMAIN sr.tried :
                  i < j => FirstIndex(sr.cands, sr.tried[i]) < FirstIndex(sr.cands, sr.tried[j]))
    /\ [][(sr.pc = "cand" /\ dl'.pc # "idle") =>
            /\ dl'.url = sr.cands[sr.cidx]
            /\ dl'.url \notin Range(sr.tried)
            /\ sr'.tried = Append(sr.tried, dl'.url)]_vars

\* C18 witness: ten of more than ten distinct candidates were downloaded and
\* the loop is over, the eleventh never tried
C18_Witness ==
    /\ sr.pc = "cand" /\ sr.cidx = 11
    /\ Len(sr.cands) > 10 /\ Len(sr.tried) = 10
    /\ sr.tried = SubSeq(sr.cands, 1, 10)
    /\ sr.cands[11] \notin Range(sr.tried)

(***************************************************************************)
(* Claims about the file naming (checked under SpecName).                  *)
(***************************************************************************)
Named == verdict # NoVerdict

SafeChars == Range(UpperChars) \cup Range(LowerChars) \cup Digits \cup {"-", "_", "."}

\* C28: the file name holds only alphanumerics, "-", "_" and ".": it is the
\* destination name with every other character replaced, one for one, by "_",
\* followed by ".pdf" exactly when the name does not end in ".pdf" already
\* (case ignored); it names a direct child of the output directory; and
\* naming a name again changes nothing.
C28_SanitizedPdfFileName ==
    Named =>
        LET name == probe.part_number
            file == verdict.filename
            had  == EndsWith(LowerStr(name), PdfExt)
        IN  /\ \A i \in DOMAIN file : file[i] \in SafeChars
            /\ Len(file) = (IF had THEN Len(name) ELSE Len(name) + Len(PdfExt))
            /\ \A i \in DOMAIN name :
                  file[i] = (IF name[i] \in SafeChars THEN name[i] ELSE "_")
            /\ EndsWith(LowerStr(file), PdfExt)
            /\ ~had => EndsWith(file, PdfExt)
            /\ "/" \notin Range(file) /\ file \notin {<<".">>, <<".", ".">>}
            /\ Sanitize(Sanitize(name)) = Sanitize(name)
            /\ OutputPath(file) = file

\* C28 as stated: all of the above, and the file name ends in ".pdf" as
\* written, in lower case.
C28_NameEndsInLowerCasePdf ==
    /\ C28_SanitizedPdfFileName
    /\ Named => EndsWith(verdict.filename, PdfExt)

\* C28 witness: "a/.PDF" is written to "a_.PDF"
C28_Witness ==
    /\ Named
    /\ probe.part_number = <<"a", "/", ".", "P", "D", "F">>
    /\ verdict.filename = <<"a", "_", ".", "P", "D", "F">>

(***************************************************************************)
(* Claims about file names in the cascade (checked under SpecLoop, whose   *)
(* output directory starts empty).                                         *)
(***************************************************************************)
\* C26: every file the search cascade writes is named after the complete
\* part number it was called with (sanitized), blanks included.
C26_FileNamedAfterWholePart ==
    \A path \in DOMAIN fs : path = OutputPath(sr.part)

(***************************************************************************)
(* Claims about files that were there before the call (checked under Spec).*)
(***************************************************************************)
\* C27: when a file was at the target path before search_by_part_number was
\* called, no step of the call removes it or changes its content.
C27_PreexistingFileUntouched ==
    [][sr.hadfile => fs' = fs]_vars

(***************************************************************************)
(* Claims about the failure message (checked under Spec).                  *)
(***************************************************************************)
\* C25: when search_by_part_number returns failure after the strategies were
\* run and no manufacturer site was probed, its message is the message of
\* the last strategy's failure.
C25_FailureReportsLastError ==
    (SearchReturned /\ ~sr.result.success /\ sr.queried # <<>> /\ ~sr.probed)
        => sr.result.message = sr.lasterr

(***************************************************************************)
(* Claims about pacing (checked under Spec).                               *)
(***************************************************************************)
\* the configured delay between requests, in seconds
DelaySeconds == 3

\* a strategy's navigation that is not the first of the resolution
NextNavigation ==
    /\ sr.pc = "query" /\ sr.queried # <<>>
    /\ sr'.queried # sr.queried

\* C29: between the navigation of one strategy and that of the next the
\* program sleeps for at least the configured delay; with a positive delay,
\* the strategy before did not end at its navigation without any sleep.
C29_SleepBetweenNavigations ==
    [][(NextNavigation /\ DelaySeconds > 0) => ~sr.nosleep]_vars

(***************************************************************************)
(* Claims about get_datasheet (checked under SpecGet).                     *)
(***************************************************************************)
GetRunning == gd.pc \notin {"idle", "start", "done", "raised"}

\* no GET has been sent by the download frame
NoGet(d) == d.pc = "idle" \/ \A i \in DOMAIN d.trace : d.trace[i][1] # "get"

\* C21: while get_datasheet runs with download=False no step sends a GET for
\* a body and no step creates, changes or removes a file.
C21_ListOnlyDownloadsNothing ==
    [][(GetRunning /\ ~gd.download) => (fs' = fs /\ NoGet(dl'))]_vars

\* C22: get_datasheet with download=True calls search_by_part_number first
\* and returns its file when it succeeded, without any lookup; only after a
\* failed cascade are the direct sources looked up; of the lookup's results
\* only the first is downloaded, once; the call returns that download's path
\* when it succeeded, and None when the lookup was empty or the download
\* failed.
C22_CascadeThenFirstDirectResult ==
    (gd.pc # "idle" /\ gd.download) =>
        /\ gd.pc \in {"start", "cascade"} =>
              (gd.srcidx = 0 /\ gd.results = <<>> /\ gd.fetched = <<>>)
        /\ gd.srcidx > 0 => (gd.cascade # NoResult /\ ~gd.cascade.success)
        /\ gd.cascade.success =>
              /\ gd.pc = "done" /\ gd.ret = gd.cascade.filepath
              /\ gd.srcidx = 0 /\ gd.fetched = <<>>
        /\ gd.fetched # <<>> =>
              /\ gd.srcidx > Len(direct_sources(gd.mpn))
              /\ gd.fetched = <<gd.results[1].url>>
        /\ gd.pc = "dl" => (dl.pc # "idle" /\ dl.url = gd.results[1].url)
        /\ (gd.pc = "done" /\ ~gd.cascade.success) =>
              /\ gd.srcidx > Len(direct_sources(gd.mpn))
              /\ Len(gd.fetched) = (IF gd.results = <<>> THEN 0 ELSE 1)
              /\ gd.ret = (IF gd.results # <<>> /\ gd.got.success
                           THEN gd.got.filepath ELSE None)
              /\ gd.got.success =>
                    (gd.got.filepath = OutputPath(gd.mpn) /\ Exists(gd.got.filepath))

\* C22 witness: the cascade failed, the lookup found two results, and the
\* download of the first gave the file that is returned
C22_Witness ==
    /\ gd.pc = "done" /\ gd.download
    /\ ~gd.cascade.success
    /\ Len(gd.results) = 2 /\ gd.results[1].url # gd.results[2].url
    /\ gd.fetched = <<gd.results[1].url>>
    /\ gd.got.success /\ gd.ret = OutputPath(gd.mpn)

\* page.goto of a strategy raised in this step
StrategyRaised == sr.pc = "query" /\ sr' # sr /\ sr'.nosleep

\* a direct source raised in this step
SourceRaised ==
    /\ gd.pc = "sources" /\ gd.srcidx <= Len(direct_sources(gd.mpn))
    /\ gd' # gd /\ gd'.raised

\* C23: a step in which the page provider raises returns nothing and lets no
\* exception leave: after a strategy that raised the next strategy is the
\* one to run (the code after the loop when it was the last), after a source
\* that raised the next source is, with the results so far unchanged.
C23_ProviderFailureYieldsNothing ==
    [][/\ StrategyRaised =>
            /\ sr'.result = NoResult
            /\ gd' = gd
            /\ IF sr.sidx < Len(sr.strategies)
               THEN sr'.pc = "query" /\ sr'.sidx = sr.sidx + 1
               ELSE sr'.pc = "probe"
       /\ SourceRaised =>
            /\ gd'.pc = "sources"
            /\ gd'.srcidx = gd.srcidx + 1
            /\ gd'.results = gd.results]_vars

\* C23 witness: the last strategy of the cascade raised at its navigation,
\* and so did the second direct source; the third is up, with the first
\* source's result kept
C23_Witness ==
    /\ gd.pc = "sources" /\ gd.download
    /\ sr.pc = "done" /\ sr.nosleep /\ sr.queried = sr.strategies
    /\ Len(sr.strategies) = 5
    /\ gd.srcidx = 3 /\ gd.raised /\ Len(gd.results) = 1

(***************************************************************************)
(* Claims about the batch loops (checked under SpecBatch).                 *)
(***************************************************************************)
BatchEnded == batch.pc \in {"done", "raised"}

\* the items of the loop that was entered
BatchItems == IF batch.args.input = "csv" THEN batch.args.rows ELSE batch.mpns

\* C24: once a batch loop has been entered (the CLI loop over MPNs or the
\* loop of process_csv_file over rows), the run ends only after every item
\* was processed, with one recorded outcome per item, whatever failed or
\* raised on the way.
C24_NoItemAbortsBatch ==
    (BatchEnded /\ batch.idx > 0) =>
        /\ batch.pc = "done"
        /\ batch.idx > Len(BatchItems)
        /\ Len(batch.recorded) = Len(BatchItems)

\* C30: when main has run its loop over the MPNs (the positional argument or
\* the stripped non-empty lines of the file, in order) without
\* --direct-sources, it has called get_datasheet exactly once per MPN, in
\* order, with download=False exactly under --list-only, and returns 0.
C30_GetDatasheetOncePerMpn ==
    (batch.pc = "done" /\ batch.idx > 0
       /\ batch.args.input # "csv" /\ ~batch.args.direct_sources) =>
        /\ batch.exit = 0
        /\ batch.calls = [i \in DOMAIN batch.mpns |->
                            Call("get_datasheet", batch.mpns[i], ~batch.args.list_only)]

(***************************************************************************)
(* Claims about the table order of _identify_manufacturer (checked under   *)
(* SpecIdentify).                                                          *)
(***************************************************************************)
\* the lower-cased first three characters of the part number
FirstThree(part_number) ==
    SubSeq(LowerStr(part_number), 1, Min(3, Len(part_number)))

\* C36: the result is the manufacturer of the first entry of the table, in
\* table order, that is a prefix of the lower-cased first three characters
\* of the part number, and none when no entry is; it is the same for the
\* upper-cased and the lower-cased part number and for the part number cut
\* after its third character.
C36_FirstTableEntryWins ==
    Identified =>
        LET head == FirstThree(probe.part)
            hit(i) == StartsWith(head, prefix_map[i][1])
        IN  /\ \/ /\ \A i \in DOMAIN prefix_map : ~hit(i)
                  /\ verdict.manufacturer = NoManufacturer
               \/ \E i \in DOMAIN prefix_map :
                     /\ hit(i)
                     /\ \A j \in 1..(i - 1) : ~hit(j)
                     /\ verdict.manufacturer = prefix_map[i][2]
            /\ verdict.manufacturer = identify_manufacturer(UpperStr(probe.part))
            /\ verdict.manufacturer = identify_manufacturer(LowerStr(probe.part))
            /\ verdict.manufacturer =
                  identify_manufacturer(SubSeq(probe.part, 1, Min(3, Len(probe.part))))

\* C36 witness: "ADS1" matches the entries "ads" and "ad" and resolves to
\* ti, the manufacturer of the earlier one
C36_Witness ==
    /\ Identified
    /\ probe.part = <<"A", "D", "S", "1">>
    /\ verdict.manufacturer = "ti"

(***************************************************************************)
(* Claims about the classifier's thresholds (checked under SpecClassify).  *)
(***************************************************************************)
SizeRejects == {<<"File too small">>, <<"File too large">>}
PageRejects == {<<"Too few pages">>, <<"Too many pages">>}

\* the page count was read: the size rules passed and fitz opened the file
ProbePagesCounted == ProbeInspected /\ probe.pdf.err # "open"

\* C37: the thresholds are strict at both ends.  A file of exactly 51,200
\* bytes or exactly 20,480,000 bytes is not rejected for its size, one of
\* 51,199 bytes is rejected as too small and one of 20,480,001 bytes as too
\* large; a PDF of exactly 3 or 200 pages is not rejected for its page
\* count, one of 2 pages is rejected as too few and one of 201 as too many.
C37_ThresholdsAreStrict ==
    (Classified /\ probe.exists) =>
        /\ probe.size \in {51200, 20480000} => verdict.reason \notin SizeRejects
        /\ probe.size = 51199 => verdict = Verdict(FALSE, <<"File too small">>, FALSE)
        /\ probe.size = 20480001 => verdict = Verdict(FALSE, <<"File too large">>, FALSE)
        /\ ProbePagesCounted =>
              /\ probe.pdf.npages \in {3, 200} => verdict.reason \notin PageRejects
              /\ probe.pdf.npages = 2 => verdict = Verdict(FALSE, <<"Too few pages">>, TRUE)
              /\ probe.pdf.npages = 201 => verdict = Verdict(FALSE, <<"Too many pages">>, TRUE)

\* C37 witness: a file of exactly 50 KB with exactly 200 pages is accepted
C37_Witness ==
    /\ Classified
    /\ probe.exists /\ probe.size = 51200
    /\ ProbePagesCounted /\ probe.pdf.npages = 200
    /\ verdict.is_datasheet

\* C37 witness of the rejecting side: one byte below 50 KB is too small
C37_WitnessBelow ==
    /\ Classified
    /\ probe.exists /\ probe.size = 51199
    /\ verdict.reason = <<"File too small">>

(***************************************************************************)
(* Claims about a download whose first attempt succeeds (checked under     *)
(* SpecDownload).                                                          *)
(***************************************************************************)
\* the first iteration of the retry loop ran to its "return True"
FirstGetSucceeded ==
    /\ dl.pc = "get" /\ dl.attempt = 0
    /\ dl'.pc = "done" /\ dl'.result.success

\* C32: when the first GET of a download succeeds with an acceptable content
\* type, the call has issued exactly one GET, for the requested URL, and the
\* file at the returned path exists and holds every chunk of that response's
\* body, in the order streamed.
C32_OneGetAndWholeBody ==
    [][FirstGetSucceeded =>
          /\ dl'.trace = << <<"get", "ok">> >>
          /\ ContentTypeOk(dl'.ctype)
          /\ dl'.result.filepath \in DOMAIN fs'
          /\ fs'[dl'.result.filepath] = File(dl.url, NumChunks)
          /\ IsComplete(fs'[dl'.result.filepath])]_vars

\* C32 witness: one GET of the TI link, the whole body on disk
C32_Witness ==
    /\ dl.pc = "done"
    /\ dl.url = UrlTi
    /\ dl.trace = << <<"get", "ok">> >>
    /\ dl.result.success
    /\ Exists(dl.result.filepath)
    /\ fs[dl.result.filepath] = File(UrlTi, NumChunks)

(***************************************************************************)
(* Claims about the URL a success is attributed to (checked under          *)
(* SpecDownload).                                                          *)
(***************************************************************************)
\* C38: whenever download_direct_pdf returns success with a file path and a
\* download URL, the bytes stored at that path were fetched from that URL.
C38_FileCameFromReturnedUrl ==
    (dl.pc = "done" /\ dl.result.success) =>
        /\ Exists(dl.result.filepath)
        /\ fs[dl.result.filepath].url = dl.result.download_url

(***************************************************************************)
(* Claims about the shape of a resolution's result (checked under Spec).   *)
(***************************************************************************)
\* C39: when search_by_part_number returns success, the file path and the
\* download URL of the result are not None and a file exists at the path;
\* when it returns failure, both are None.
C39_ResultIsConsistent ==
    SearchReturned =>
        IF sr.result.success
        THEN /\ sr.result.filepath # None
             /\ sr.result.download_url # None
             /\ Exists(sr.result.filepath)
        ELSE /\ sr.result.filepath = None
             /\ sr.result.download_url = None

(***************************************************************************)
(* End-to-end scenarios of search_by_part_number (checked under Spec).     *)
(***************************************************************************)
LM358 == <<"L", "M", "3", "5", "8">>

\* the download of the only candidate of LM358's first strategy, a TI link,
\* has returned success and the file holds TI's document: 800 KB, 12 pages,
\* "Absolute Maximum Ratings" on page 1
Lm358Downloaded ==
    /\ sr.pc = "dl" /\ dl.pc = "done"
    /\ sr.part = LM358
    /\ sr.sidx = 1
    /\ sr.cands = <<UrlTi>>
    /\ dl.result.success
    /\ fs[dl.result.filepath] = File(UrlTi, NumChunks)
    /\ FileSize(fs[dl.result.filepath]) = 800 * BytesPerKB
    /\ Web(UrlTi).pdf.npages = 12
    /\ Contains(Lower(PageText(Web(UrlTi).pdf, 1)), <<"absolute", "maximum", "ratings">>)

\* C33: resolving LM358 when the first strategy's only candidate is a TI
\* link whose download succeeds with an 800 KB, 12-page file carrying
\* "absolute maximum ratings" on page 1: the classifier accepts, and the
\* resolution returns success with that file's path and URL after one search
\* query and one download, the file kept on disk.
C33_Lm358Resolves ==
    [][Lm358Downloaded =>
          /\ sr'.pc = "done"
          /\ sr'.result.success
          /\ sr'.result.filepath = OutputPath(LM358)
          /\ sr'.result.download_url = UrlTi
          /\ Len(sr'.queried) = 1
          /\ sr'.tried = <<UrlTi>>
          /\ ~sr'.probed
          /\ fs' = fs
          /\ sr'.result.filepath \in DOMAIN fs']_vars

\* C33 witness: the resolution of LM358 returned TI's document, fetched with
\* one GET into an empty directory, after one query
C33_Witness ==
    /\ SearchReturned
    /\ sr.part = LM358 /\ ~sr.hadfile /\ fitz
    /\ sr.result.success
    /\ sr.result.filepath = OutputPath(LM358)
    /\ sr.result.download_url = UrlTi
    /\ sr.cands = <<UrlTi>>
    /\ Len(sr.queried) = 1
    /\ fs = (OutputPath(LM358) :> File(UrlTi, NumChunks))

(***************************************************************************)
(* The failing end-to-end scenario (checked under SpecCatalog).            *)
(***************************************************************************)
\* the catalog is what the scenario says: 50 pages, "Product Catalog" on
\* page 1
CatalogAsDescribed ==
    /\ Web(UrlOther).pdf.npages = 50
    /\ Contains(PageText(Web(UrlOther).pdf, 1), <<"Product", "Catalog">>)

\* the resolution returned failure, no candidate was accepted and the
\* manufacturer's site was not visited because no manufacturer matches
CatalogFailed ==
    /\ CatalogAsDescribed
    /\ identify_manufacturer(CATALOG1) = NoManufacturer
    /\ sr.accepted = None
    /\ ~sr.probed
    /\ sr.result = NotFound

\* C34 as stated: resolving CATALOG1 when the only candidate ever returned
\* is the 50-page product catalog, the candidate is rejected, the cascade
\* exhausts all 5 strategies, the prober contributes nothing and the
\* resolution returns failure.
C34_CatalogExhaustsFiveStrategies ==
    (SearchReturned /\ fitz) => (CatalogFailed /\ Len(sr.queried) = 5)

\* C34, amended: ... the cascade exhausts the 4 strategies generated for a
\* part without a manufacturer, each queried once in order, the prober
\* contributes nothing and the resolution returns failure.
C34_CatalogExhaustsFourStrategies ==
    (SearchReturned /\ fitz) =>
        /\ CatalogFailed
        /\ Len(sr.queried) = 4
        /\ sr.queried = search_strategies(CATALOG1)

\* C34 witness: the catalog was downloaded and rejected, and the resolution
\* failed after four queries
C34_Witness ==
    /\ SearchReturned /\ fitz
    /\ sr.part = CATALOG1
    /\ UrlOther \in sr.bad
    /\ Len(sr.queried) = 4
    /\ sr.result = NotFound
    /\ fs = <<>>

(***************************************************************************)
(* Claims about the exit code of main (checked under SpecBatch).           *)
(***************************************************************************)
\* the input file could not be read or used, or the session did not start
\* (the run ended before the first item)
SetupFailed ==
    \/ ~batch.args.readable
    \/ ~batch.args.columns
    \/ batch.idx = 0

\* C31: when main ends, it has returned 0 unless setup failed, whatever the
\* items did (failed or raised), and it has returned 1 only when setup
\* failed (unreadable MPN file, session that cannot be started).
C31_ExitCodes ==
    BatchEnded =>
        /\ ~SetupFailed => batch.exit = 0
        /\ batch.exit = 1 => SetupFailed

(***************************************************************************)
(* Claims about the release of the browser session (checked under          *)
(* SpecBatch; page stands for the handles start() sets and stop() unsets). *)
(***************************************************************************)
\* C35: when process_csv_file or the "with downloader" block of main has
\* ended, normally or because an item raised, stop has run and the session's
\* handles are closed and unset.
C35_SessionReleased ==
    BatchEnded => ~page

====
